---------------------------- MODULE Spec2Model ----------------------------
(***************************************************************************)
(* A model of the C interface of rust-bitcoin-core-miniscript-ffi:         *)
(*   src/cpp/miniscript_wrapper.cpp  (parse, serialize, query, satisfy)    *)
(*   src/cpp/descriptor_wrapper.cpp  (descriptor parse / address)          *)
(*   src/cpp/stubs.cpp               (global chain parameters)             *)
(* The miniscript library the wrapper calls (script/miniscript.h) is not   *)
(* part of src/; the fragments of it the wrapper exercises are modelled    *)
(* from the design document.                                               *)
(***************************************************************************)
EXTENDS Integers, Sequences, FiniteSets, TLC

(***************************************************************************)
(* Bounds of the model.                                                    *)
(***************************************************************************)
\* number of tree handles a caller holds at once
MaxHandles == 2
\* number of descriptor API calls each thread makes
MaxCalls == 2
\* number of miniscript_satisfaction_result_free calls on one result
MaxFrees == 2

(***************************************************************************)
(* Program constants.                                                      *)
(***************************************************************************)
MINISCRIPT_CONTEXT_WSH == 0
MINISCRIPT_CONTEXT_TAPSCRIPT == 1
MINISCRIPT_AVAILABILITY_NO == 0
MINISCRIPT_AVAILABILITY_YES == 1
MINISCRIPT_AVAILABILITY_MAYBE == 2
\* length of the dummy signature CallbackSatisfier::Sign makes up for MAYBE
DummySigLen == 72
\* the byte the dummy signature is filled with (0x30)
DummySigByte == 48
\* StringKeyContext::ToPKBytes / CallbackSatisfier::ToPKBytes placeholder widths
PKBytesWsh == 33
PKBytesTap == 32

\* the null pointer / null handle
NULL == 0

(***************************************************************************)
(* Small helpers.                                                          *)
(***************************************************************************)
Rep(n, b) == [i \in 1..n |-> b]

RECURSIVE Flatten(_)
Flatten(ss) == IF ss = <<>> THEN <<>> ELSE Head(ss) \o Flatten(Tail(ss))

RECURSIVE SeqSum(_)
SeqSum(s) == IF s = <<>> THEN 0 ELSE Head(s) + SeqSum(Tail(s))

Reverse(s) == [i \in 1..Len(s) |-> s[Len(s) + 1 - i]]

\* index of the first element of s equal to c, searching only within the
\* current parentheses; 0 if there is none
RECURSIVE FindFrom(_, _, _)
FindFrom(s, c, i) ==
    IF i > Len(s) THEN 0
    ELSE IF s[i] = c THEN i
    ELSE IF s[i] = ")" THEN 0
    ELSE FindFrom(s, c, i + 1)

FindNextChar(s, c) == FindFrom(s, c, 1)

(***************************************************************************)
(* script/miniscript.h: contexts, types, nodes.                            *)
(***************************************************************************)
P2WSH == "P2WSH"
TAPSCRIPT == "TAPSCRIPT"

IsTapscript(ms_ctx) == ms_ctx = TAPSCRIPT

\* typ << props
Has(typ, props) == props \subseteq typ

If(props, cond) == IF cond THEN props ELSE {}

TimelockBits == {"g", "h", "i", "j"}

\* k = k_x * k_y * !(g_x*h_y + h_x*g_y + i_x*j_y + j_x*i_y)
NoTimelockMix(x, y) ==
    /\ Has(x, {"k"}) /\ Has(y, {"k"})
    /\ ~ \/ (Has(x, {"g"}) /\ Has(y, {"h"}))
         \/ (Has(x, {"h"}) /\ Has(y, {"g"}))
         \/ (Has(x, {"i"}) /\ Has(y, {"j"}))
         \/ (Has(x, {"j"}) /\ Has(y, {"i"}))

\* the type a fragment gets from the types x, y of its (up to two) children
ComputeType(fragment, x, y, k, n_keys, ms_ctx) ==
    CASE fragment = "PK_K" -> {"K", "o", "n", "u", "d", "e", "m", "s", "x", "k"}
      [] fragment = "OLDER" ->
            (IF (k \div 4194304) % 2 = 1 THEN {"g"} ELSE {"h"})
                \cup {"B", "z", "f", "m", "x", "k"}
      [] fragment = "AFTER" ->
            (IF k >= 500000000 THEN {"i"} ELSE {"j"})
                \cup {"B", "z", "f", "m", "x", "k"}
      [] fragment = "JUST_1" -> {"B", "z", "u", "f", "m", "x", "k"}
      [] fragment = "JUST_0" -> {"B", "z", "u", "d", "e", "m", "s", "x", "k"}
      [] fragment = "MULTI" ->
            If({"B", "n", "u", "d", "e", "m", "s", "k"}, ~IsTapscript(ms_ctx))
      [] fragment = "WRAP_A" ->
            If({"W"}, Has(x, {"B"})) \cup (x \cap (TimelockBits \cup {"k"}))
                \cup (x \cap {"u", "d", "f", "e", "m", "s"}) \cup {"x"}
      [] fragment = "WRAP_S" ->
            If({"W"}, Has(x, {"B", "o"})) \cup (x \cap (TimelockBits \cup {"k"}))
                \cup (x \cap {"u", "d", "f", "e", "m", "s", "x"})
      [] fragment = "WRAP_C" ->
            If({"B"}, Has(x, {"K"})) \cup (x \cap (TimelockBits \cup {"k"}))
                \cup (x \cap {"o", "n", "d", "f", "e", "m"}) \cup {"u", "s"}
      [] fragment = "WRAP_V" ->
            If({"V"}, Has(x, {"B"})) \cup (x \cap (TimelockBits \cup {"k"}))
                \cup (x \cap {"z", "o", "n", "m", "s"}) \cup {"f", "x"}
      [] fragment = "AND_V" ->
            If(y \cap {"K", "V", "B"}, Has(x, {"V"}))
                \cup (x \cap {"n"}) \cup If(y \cap {"n"}, Has(x, {"z"}))
                \cup If((x \cup y) \cap {"o"}, Has(x \cup y, {"z"}))
                \cup (x \cap y \cap {"d", "m", "z"})
                \cup ((x \cup y) \cap {"s"})
                \cup If({"f"}, Has(y, {"f"}) \/ Has(x, {"s"}))
                \cup (y \cap {"u", "x"})
                \cup ((x \cup y) \cap TimelockBits)
                \cup If({"k"}, NoTimelockMix(x, y))
      [] fragment = "AND_B" ->
            If(x \cap {"B"}, Has(y, {"W"}))
                \cup If((x \cup y) \cap {"o"}, Has(x \cup y, {"z"}))
                \cup (x \cap {"n"}) \cup If(y \cap {"n"}, Has(x, {"z"}))
                \cup If(x \cap y \cap {"e"}, Has(x \cap y, {"s"}))
                \cup (x \cap y \cap {"d", "z", "m"})
                \cup If({"f"}, Has(x \cap y, {"f"}) \/ Has(x, {"s", "f"})
                                 \/ Has(y, {"s", "f"}))
                \cup ((x \cup y) \cap {"s"})
                \cup {"u", "x"}
                \cup ((x \cup y) \cap TimelockBits)
                \cup If({"k"}, NoTimelockMix(x, y))
      [] fragment = "OR_B" ->
            If({"B"}, Has(x, {"B", "d"}) /\ Has(y, {"W", "d"}))
                \cup If((x \cup y) \cap {"o"}, Has(x \cup y, {"z"}))
                \cup If(x \cap y \cap {"m"},
                        Has(x \cup y, {"s"}) /\ Has(x \cap y, {"e"}))
                \cup (x \cap y \cap {"z", "s", "e"})
                \cup {"d", "u", "x"}
                \cup ((x \cup y) \cap TimelockBits)
                \cup (x \cap y \cap {"k"})
      [] fragment = "OR_D" ->
            If(y \cap {"B"}, Has(x, {"B", "d", "u"}))
                \cup If(x \cap {"o"}, Has(y, {"z"}))
                \cup If(x \cap y \cap {"m"},
                        Has(x, {"e"}) /\ Has(x \cup y, {"s"}))
                \cup (x \cap y \cap {"z", "s"})
                \cup (y \cap {"u", "f", "d", "e"})
                \cup {"x"}
                \cup ((x \cup y) \cap TimelockBits)
                \cup (x \cap y \cap {"k"})
      [] fragment = "OR_I" ->
            (x \cap y \cap {"V", "B", "K", "u", "f", "s"})
                \cup If({"o"}, Has(x \cap y, {"z"}))
                \cup If((x \cup y) \cap {"e"}, Has(x \cup y, {"f"}))
                \cup If(x \cap y \cap {"m"}, Has(x \cup y, {"s"}))
                \cup ((x \cup y) \cap {"d"})
                \cup {"x"}
                \cup ((x \cup y) \cap TimelockBits)
                \cup (x \cap y \cap {"k"})
      [] OTHER -> {}

\* a type without a base type is the empty (invalid) type
SanitizeType(e) ==
    IF e \cap {"K", "V", "B", "W"} = {} THEN {} ELSE e

\* bytes CScript << n takes: OP_0..OP_16 are one byte, else a minimal push
ScriptNumSize(n) ==
    IF n <= 16 THEN 1
    ELSE IF n <= 127 THEN 2
    ELSE IF n <= 32767 THEN 3
    ELSE IF n <= 8388607 THEN 4
    ELSE 5

ComputeScriptLen(fragment, sub0typ, subsize, k, n_keys, ms_ctx) ==
    CASE fragment \in {"JUST_1", "JUST_0"} -> 1
      [] fragment = "PK_K" -> IF IsTapscript(ms_ctx) THEN 33 ELSE 34
      [] fragment \in {"OLDER", "AFTER"} -> 1 + ScriptNumSize(k)
      [] fragment = "MULTI" ->
            1 + ScriptNumSize(n_keys) + ScriptNumSize(k) + 34 * n_keys
      [] fragment = "AND_V" -> subsize
      [] fragment = "WRAP_V" -> subsize + (IF Has(sub0typ, {"x"}) THEN 1 ELSE 0)
      [] fragment \in {"WRAP_S", "WRAP_C", "AND_B", "OR_B"} -> subsize + 1
      [] fragment = "WRAP_A" -> subsize + 2
      [] fragment \in {"OR_D", "OR_I"} -> subsize + 3
      [] OTHER -> 0

\* Node construction: the type and the script length are computed once, here,
\* and stored in the node.
MakeNode(ms_ctx, fragment, k, keys, subs) ==
    LET x == IF Len(subs) > 0 THEN subs[1].typ ELSE {}
        y == IF Len(subs) > 1 THEN subs[2].typ ELSE {}
        subsize == SeqSum([i \in 1..Len(subs) |-> subs[i].scriptlen])
    IN  [fragment |-> fragment, k |-> k, keys |-> keys, subs |-> subs,
         m_script_ctx |-> ms_ctx,
         typ |-> SanitizeType(ComputeType(fragment, x, y, k, Len(keys), ms_ctx)),
         scriptlen |-> ComputeScriptLen(fragment, x, subsize, k, Len(keys), ms_ctx)]

MAX_STANDARD_P2WSH_SCRIPT_SIZE == 3600
\* tapscript: bounded by the standard transaction weight only
MaxTapscriptSize == 400000

MaxScriptSize(ms_ctx) ==
    IF IsTapscript(ms_ctx) THEN MaxTapscriptSize ELSE MAX_STANDARD_P2WSH_SCRIPT_SIZE

NodeIsValid(n) == n.typ # {} /\ n.scriptlen <= MaxScriptSize(n.m_script_ctx)

NodeIsValidTopLevel(n) == NodeIsValid(n) /\ Has(n.typ, {"B"})

(***************************************************************************)
(* script/miniscript.h: the resource bounds of a node (ops, stack size,    *)
(* witness size), duplicate keys and sanity.                               *)
(***************************************************************************)
MAX_OPS_PER_SCRIPT == 201
MAX_STANDARD_P2WSH_STACK_ITEMS == 100
MAX_STACK_SIZE == 1000

Max(a, b) == IF a >= b THEN a ELSE b

\* MaxInt<uint32_t>: a number, or no number at all
MaxInt(v) == [valid |-> TRUE, value |-> v]
NoInt == [valid |-> FALSE, value |-> 0]

\* operator+ of MaxInt
MaxIntSum(a, b) ==
    IF ~a.valid \/ ~b.valid THEN NoInt ELSE MaxInt(a.value + b.value)

\* operator| of MaxInt
MaxIntOr(a, b) ==
    IF ~a.valid THEN b
    ELSE IF ~b.valid THEN a
    ELSE MaxInt(Max(a.value, b.value))

Ops(count, sat, dsat) == [count |-> count, sat |-> sat, dsat |-> dsat]

\* CalcOps for a fragment with children whose Ops are x and y
CombineOps(fragment, x, y, xtyp) ==
    CASE fragment = "AND_V" ->
            Ops(x.count + y.count, MaxIntSum(x.sat, y.sat), NoInt)
      [] fragment = "AND_B" ->
            Ops(1 + x.count + y.count, MaxIntSum(x.sat, y.sat),
                MaxIntSum(x.dsat, y.dsat))
      [] fragment = "OR_B" ->
            Ops(1 + x.count + y.count,
                MaxIntOr(MaxIntSum(x.sat, y.dsat), MaxIntSum(y.sat, x.dsat)),
                MaxIntSum(x.dsat, y.dsat))
      [] fragment = "OR_D" ->
            Ops(3 + x.count + y.count,
                MaxIntOr(x.sat, MaxIntSum(y.sat, x.dsat)),
                MaxIntSum(x.dsat, y.dsat))
      [] fragment = "OR_I" ->
            Ops(3 + x.count + y.count, MaxIntOr(x.sat, y.sat),
                MaxIntOr(x.dsat, y.dsat))
      [] fragment \in {"WRAP_S", "WRAP_C"} -> Ops(1 + x.count, x.sat, x.dsat)
      [] fragment = "WRAP_A" -> Ops(2 + x.count, x.sat, x.dsat)
      [] fragment = "WRAP_V" ->
            Ops(x.count + (IF Has(xtyp, {"x"}) THEN 1 ELSE 0), x.sat, NoInt)
      [] OTHER -> Ops(0, NoInt, NoInt)

\* Node::CalcOps
RECURSIVE CalcOps(_)
CalcOps(n) ==
    CASE n.fragment = "JUST_1" -> Ops(0, MaxInt(0), NoInt)
      [] n.fragment = "JUST_0" -> Ops(0, NoInt, MaxInt(0))
      [] n.fragment = "PK_K" -> Ops(0, MaxInt(0), MaxInt(0))
      [] n.fragment \in {"OLDER", "AFTER"} -> Ops(1, MaxInt(0), NoInt)
      [] n.fragment = "MULTI" -> Ops(1, MaxInt(Len(n.keys)), MaxInt(Len(n.keys)))
      [] Len(n.subs) = 1 ->
            CombineOps(n.fragment, CalcOps(n.subs[1]), Ops(0, NoInt, NoInt),
                       n.subs[1].typ)
      [] Len(n.subs) = 2 ->
            CombineOps(n.fragment, CalcOps(n.subs[1]), CalcOps(n.subs[2]),
                       n.subs[1].typ)
      [] OTHER -> Ops(0, NoInt, NoInt)

\* Node::GetOps
GetOps(n) ==
    IF ~CalcOps(n).sat.valid THEN NoInt
    ELSE MaxInt(CalcOps(n).count + CalcOps(n).sat.value)

\* Node::CheckOpsLimit
CheckOpsLimit(n) ==
    IF IsTapscript(n.m_script_ctx) THEN TRUE
    ELSE IF GetOps(n).valid THEN GetOps(n).value <= MAX_OPS_PER_SCRIPT
    ELSE TRUE

\* SatInfo: the net decrease of the stack size and the maximum stack size
\* during the execution, relative to the size at the end
SatInfo(netdiff, exec) == [valid |-> TRUE, netdiff |-> netdiff, exec |-> exec]
NoSatInfo == [valid |-> FALSE, netdiff |-> 0, exec |-> 0]

\* operator| of SatInfo
SatInfoOr(a, b) ==
    IF ~a.valid THEN b
    ELSE IF ~b.valid THEN a
    ELSE SatInfo(Max(a.netdiff, b.netdiff), Max(a.exec, b.exec))

\* operator+ of SatInfo: a runs first, then b
SatInfoSum(a, b) ==
    IF ~a.valid \/ ~b.valid THEN NoSatInfo
    ELSE SatInfo(a.netdiff + b.netdiff, Max(b.exec, b.netdiff + a.exec))

SatInfo_Push == SatInfo(0 - 1, 0)
SatInfo_Nop == SatInfo(0, 0)
SatInfo_If == SatInfo(1, 1)
SatInfo_BinaryOp == SatInfo(1, 1)
SatInfo_OP_IFDUP(nonzero) == SatInfo(IF nonzero THEN 0 - 1 ELSE 0, 0)
SatInfo_OP_CHECKSIG == SatInfo(1, 1)
SatInfo_OP_VERIFY == SatInfo(1, 1)

StackSize(sat, dsat) == [sat |-> sat, dsat |-> dsat]

\* CalcStackSize for a fragment with children whose StackSize are x and y
CombineStackSize(fragment, x, y) ==
    CASE fragment = "AND_V" -> StackSize(SatInfoSum(x.sat, y.sat), NoSatInfo)
      [] fragment = "AND_B" ->
            StackSize(SatInfoSum(SatInfoSum(x.sat, y.sat), SatInfo_BinaryOp),
                      SatInfoSum(SatInfoSum(x.dsat, y.dsat), SatInfo_BinaryOp))
      [] fragment = "OR_B" ->
            StackSize(SatInfoSum(SatInfoOr(SatInfoSum(x.sat, y.dsat),
                                           SatInfoSum(x.dsat, y.sat)),
                                 SatInfo_BinaryOp),
                      SatInfoSum(SatInfoSum(x.dsat, y.dsat), SatInfo_BinaryOp))
      [] fragment = "OR_D" ->
            StackSize(SatInfoOr(SatInfoSum(SatInfoSum(x.sat, SatInfo_OP_IFDUP(TRUE)),
                                           SatInfo_If),
                                SatInfoSum(SatInfoSum(SatInfoSum(x.dsat,
                                                          SatInfo_OP_IFDUP(FALSE)),
                                                      SatInfo_If),
                                           y.sat)),
                      SatInfoSum(SatInfoSum(SatInfoSum(x.dsat, SatInfo_OP_IFDUP(FALSE)),
                                            SatInfo_If),
                                 y.dsat))
      [] fragment = "OR_I" ->
            StackSize(SatInfoSum(SatInfo_If, SatInfoOr(x.sat, y.sat)),
                      SatInfoSum(SatInfo_If, SatInfoOr(x.dsat, y.dsat)))
      [] fragment \in {"WRAP_A", "WRAP_S"} -> x
      [] fragment = "WRAP_C" ->
            StackSize(SatInfoSum(x.sat, SatInfo_OP_CHECKSIG),
                      SatInfoSum(x.dsat, SatInfo_OP_CHECKSIG))
      [] fragment = "WRAP_V" ->
            StackSize(SatInfoSum(x.sat, SatInfo_OP_VERIFY), NoSatInfo)
      [] OTHER -> StackSize(NoSatInfo, NoSatInfo)

\* Node::CalcStackSize
RECURSIVE CalcStackSize(_)
CalcStackSize(n) ==
    CASE n.fragment = "JUST_0" -> StackSize(NoSatInfo, SatInfo_Push)
      [] n.fragment = "JUST_1" -> StackSize(SatInfo_Push, NoSatInfo)
      [] n.fragment \in {"OLDER", "AFTER"} ->
            StackSize(SatInfoSum(SatInfo_Push, SatInfo_Nop), NoSatInfo)
      [] n.fragment = "PK_K" -> StackSize(SatInfo_Push, SatInfo_Push)
      [] n.fragment = "MULTI" -> StackSize(SatInfo(n.k, n.k), SatInfo(n.k, n.k))
      [] Len(n.subs) = 1 ->
            CombineStackSize(n.fragment, CalcStackSize(n.subs[1]),
                             StackSize(NoSatInfo, NoSatInfo))
      [] Len(n.subs) = 2 ->
            CombineStackSize(n.fragment, CalcStackSize(n.subs[1]),
                             CalcStackSize(n.subs[2]))
      [] OTHER -> StackSize(NoSatInfo, NoSatInfo)

\* Node::IsBKW
IsBKW(n) == n.typ \cap {"B", "K", "W"} # {}

\* Node::GetStackSize: the maximum number of witness stack elements of a
\* non-malleable satisfaction
GetStackSize(n) ==
    IF ~CalcStackSize(n).sat.valid THEN NoInt
    ELSE MaxInt(CalcStackSize(n).sat.netdiff + (IF IsBKW(n) THEN 1 ELSE 0))

\* Node::GetExecStackSize
GetExecStackSize(n) ==
    IF ~CalcStackSize(n).sat.valid THEN NoInt
    ELSE MaxInt(CalcStackSize(n).sat.exec + (IF IsBKW(n) THEN 1 ELSE 0))

\* Node::CheckStackSize
CheckStackSize(n) ==
    IF IsTapscript(n.m_script_ctx)
    THEN (IF GetExecStackSize(n).valid
          THEN GetExecStackSize(n).value <= MAX_STACK_SIZE ELSE TRUE)
    ELSE IF GetStackSize(n).valid
    THEN GetStackSize(n).value <= MAX_STANDARD_P2WSH_STACK_ITEMS
    ELSE TRUE

\* the size of a signature as a witness element, with its length byte
SigSize(ms_ctx) == IF IsTapscript(ms_ctx) THEN 1 + 65 ELSE 1 + 72

WitnessSize(sat, dsat) == [sat |-> sat, dsat |-> dsat]

\* CalcWitnessSize for a fragment with children whose WitnessSize are x and y
CombineWitnessSize(fragment, x, y) ==
    CASE fragment = "AND_V" -> WitnessSize(MaxIntSum(x.sat, y.sat), NoInt)
      [] fragment = "AND_B" ->
            WitnessSize(MaxIntSum(x.sat, y.sat), MaxIntSum(x.dsat, y.dsat))
      [] fragment = "OR_B" ->
            WitnessSize(MaxIntOr(MaxIntSum(x.dsat, y.sat), MaxIntSum(x.sat, y.dsat)),
                        MaxIntSum(x.dsat, y.dsat))
      [] fragment = "OR_D" ->
            WitnessSize(MaxIntOr(x.sat, MaxIntSum(x.dsat, y.sat)),
                        MaxIntSum(x.dsat, y.dsat))
      [] fragment = "OR_I" ->
            WitnessSize(MaxIntOr(MaxIntSum(x.sat, MaxInt(1 + 1)),
                                 MaxIntSum(y.sat, MaxInt(1))),
                        MaxIntOr(MaxIntSum(x.dsat, MaxInt(1 + 1)),
                                 MaxIntSum(y.dsat, MaxInt(1))))
      [] fragment \in {"WRAP_A", "WRAP_S", "WRAP_C"} -> x
      [] fragment = "WRAP_V" -> WitnessSize(x.sat, NoInt)
      [] OTHER -> WitnessSize(NoInt, NoInt)

\* Node::CalcWitnessSize
RECURSIVE CalcWitnessSize(_)
CalcWitnessSize(n) ==
    CASE n.fragment = "JUST_0" -> WitnessSize(NoInt, MaxInt(0))
      [] n.fragment \in {"JUST_1", "OLDER", "AFTER"} -> WitnessSize(MaxInt(0), NoInt)
      [] n.fragment = "PK_K" -> WitnessSize(MaxInt(SigSize(n.m_script_ctx)), MaxInt(1))
      [] n.fragment = "MULTI" ->
            WitnessSize(MaxInt(n.k * SigSize(n.m_script_ctx) + 1), MaxInt(n.k + 1))
      [] Len(n.subs) = 1 ->
            CombineWitnessSize(n.fragment, CalcWitnessSize(n.subs[1]),
                               WitnessSize(NoInt, NoInt))
      [] Len(n.subs) = 2 ->
            CombineWitnessSize(n.fragment, CalcWitnessSize(n.subs[1]),
                               CalcWitnessSize(n.subs[2]))
      [] OTHER -> WitnessSize(NoInt, NoInt)

\* Node::GetWitnessSize: the maximum size of the witness of a non-malleable
\* satisfaction, every element counted with its length byte
GetWitnessSize(n) == CalcWitnessSize(n).sat

\* the keys of a tree, in the order of the text
RECURSIVE KeyList(_)
KeyList(n) ==
    n.keys \o (IF Len(n.subs) = 0 THEN <<>>
               ELSE IF Len(n.subs) = 1 THEN KeyList(n.subs[1])
               ELSE KeyList(n.subs[1]) \o KeyList(n.subs[2]))

\* Node::CheckDuplicateKey: no key occurs twice in the tree
CheckDuplicateKey(n) ==
    \A i, j \in 1..Len(KeyList(n)) : KeyList(n)[i] = KeyList(n)[j] => i = j

\* Node::CheckTimeLocksMix
CheckTimeLocksMix(n) == Has(n.typ, {"k"})

\* Node::ValidSatisfactions
ValidSatisfactions(n) == NodeIsValid(n) /\ CheckOpsLimit(n) /\ CheckStackSize(n)

\* Node::IsSaneSubexpression
IsSaneSubexpression(n) ==
    /\ ValidSatisfactions(n)
    /\ Has(n.typ, {"m"})
    /\ CheckTimeLocksMix(n)
    /\ CheckDuplicateKey(n)

\* Node::IsSane
NodeIsSane(n) ==
    NodeIsValidTopLevel(n) /\ IsSaneSubexpression(n) /\ Has(n.typ, {"s"})

\* Node::FindInsaneSub: the first node, children before their parent, that
\* is not a sane subexpression; NoNode if there is none
RECURSIVE FindInsaneSub(_)
FindInsaneSub(n) ==
    IF Len(n.subs) >= 1 /\ FindInsaneSub(n.subs[1]).fragment # "NONE"
    THEN FindInsaneSub(n.subs[1])
    ELSE IF Len(n.subs) >= 2 /\ FindInsaneSub(n.subs[2]).fragment # "NONE"
    THEN FindInsaneSub(n.subs[2])
    ELSE IF ~IsSaneSubexpression(n) THEN n
    ELSE [fragment |-> "NONE", k |-> 0, keys |-> <<>>, subs |-> <<>>,
          m_script_ctx |-> P2WSH, typ |-> {}, scriptlen |-> 0]

(***************************************************************************)
(* Text.  A text is a sequence of lexemes: fragment names, "(" "," ")" ":",*)
(* wrapper letters, decimal numbers, and the characters of key strings.    *)
(* A key string (StringKey::str) is the sequence of its characters.        *)
(***************************************************************************)
\* ToIntegral<int64_t>: the number a decimal lexeme denotes, -1 if it is none
ToIntegral(tok) ==
    CASE tok = "0" -> 0
      [] tok = "1" -> 1
      [] tok = "2" -> 2
      [] tok = "3" -> 3
      [] tok = "10" -> 10
      [] tok = "010" -> 10
      [] tok = "100" -> 100
      [] tok = "500000" -> 500000
      [] tok = "500000000" -> 500000000
      [] tok = "4194305" -> 4194305
      [] OTHER -> -1

\* util::ToString(k): the canonical decimal lexeme of a number
NumToString(k) ==
    CASE k = 0 -> "0"
      [] k = 1 -> "1"
      [] k = 2 -> "2"
      [] k = 3 -> "3"
      [] k = 10 -> "10"
      [] k = 100 -> "100"
      [] k = 500000 -> "500000"
      [] k = 500000000 -> "500000000"
      [] k = 4194305 -> "4194305"
      [] OTHER -> "?"

\* StringKey(std::string(begin, end))
StringKey(chars) == [str |-> chars]

\* StringKeyContext::FromString: every non-empty string is a key
SKC_FromString(chars) == StringKey(chars)

\* the mutant of ToString that prints every key as the decoded one
SKC_ToString_fixed(key) == <<"d", "e", "c", "o", "d", "e", "d", "_", "k", "e", "y">>

\* StringKeyContext::ToString
SKC_ToString(key) == key.str

\* the string "decoded_key"
DecodedKeyStr == <<"d", "e", "c", "o", "d", "e", "d", "_", "k", "e", "y">>

\* StringKeyContext::FromPKBytes: the bytes are not looked at
SKC_FromPKBytes(bytes) == StringKey(DecodedKeyStr)

\* StringKeyContext::ToPKBytes: the key is not looked at
SKC_ToPKBytes(ms_ctx, key) ==
    IF ms_ctx = TAPSCRIPT THEN Rep(PKBytesTap, 0) ELSE Rep(PKBytesWsh, 0)

NoNode == [fragment |-> "NONE", k |-> 0, keys |-> <<>>, subs |-> <<>>,
           m_script_ctx |-> P2WSH, typ |-> {}, scriptlen |-> 0]

PFail == [ok |-> FALSE, node |-> NoNode, rest |-> <<>>]
POk(n, rest) == [ok |-> TRUE, node |-> n, rest |-> rest]

WrapperLetters == {"a", "s", "c", "v", "t", "l", "u"}
\* lexemes made of the letters a-z only
LowerLexemes == WrapperLetters \cup {"pk", "older", "after", "multi"}

\* the position of the colon ending a wrapper prefix, 0 if there is none: the
\* scan starts at the second character and stops at the first one outside a-z
RECURSIVE ColonIndex(_, _)
ColonIndex(in, i) ==
    IF i > Len(in) THEN 0
    ELSE IF in[i] = ":" THEN i
    ELSE IF in[i] \notin LowerLexemes THEN 0
    ELSE ColonIndex(in, i + 1)

\* the fragment a wrapper letter stands for
WrapperFragment(letter) ==
    CASE letter = "a" -> "WRAP_A"
      [] letter = "s" -> "WRAP_S"
      [] letter = "c" -> "WRAP_C"
      [] letter = "v" -> "WRAP_V"
      [] letter = "t" -> "AND_V"
      [] letter \in {"l", "u"} -> "OR_I"

\* the children of the node a wrapper letter makes of n: t:X is and_v(X,1),
\* l:X is or_i(0,X), u:X is or_i(X,0)
WrapperSubs(letter, n, just_0, just_1) ==
    CASE letter = "t" -> <<n, just_1>>
      [] letter = "l" -> <<just_0, n>>
      [] letter = "u" -> <<n, just_0>>
      [] OTHER -> <<n>>

ApplyWrapper(ms_ctx, letter, n) ==
    MakeNode(ms_ctx, WrapperFragment(letter), 0, <<>>,
             WrapperSubs(letter, n, MakeNode(ms_ctx, "JUST_0", 0, <<>>, <<>>),
                         MakeNode(ms_ctx, "JUST_1", 0, <<>>, <<>>)))

\* the wrappers of a prefix are applied right to left
RECURSIVE ApplyWrappers(_, _, _)
ApplyWrappers(ms_ctx, letters, n) ==
    IF letters = <<>> THEN n
    ELSE ApplyWrapper(ms_ctx, Head(letters), ApplyWrappers(ms_ctx, Tail(letters), n))

\* the keys of multi(k,KEY,...,KEY): each runs to the next "," or to the ")"
RECURSIVE ParseMultiKeys(_, _)
ParseMultiKeys(in, keys) ==
    LET next_comma == FindNextChar(in, ",")
        key_end == IF next_comma = 0 THEN FindNextChar(in, ")") ELSE next_comma
    IN  IF key_end < 2 THEN [ok |-> FALSE, keys |-> <<>>, rest |-> <<>>]
        ELSE LET ks == Append(keys, SKC_FromString(SubSeq(in, 1, key_end - 1)))
                 rest == SubSeq(in, key_end + 1, Len(in))
             IN  IF next_comma = 0
                 THEN [ok |-> TRUE, keys |-> ks, rest |-> rest]
                 ELSE ParseMultiKeys(rest, ks)

MAX_PUBKEYS_PER_MULTISIG == 20

BinaryFragments ==
    [and_v |-> "AND_V", and_b |-> "AND_B", or_b |-> "OR_B", or_d |-> "OR_D",
     or_i |-> "OR_I"]

\* multi(k,keys): the node, if there are 1..20 keys and 1 <= k <= #keys
MultiNode(ms_ctx, k, ks) ==
    IF ~ks.ok THEN PFail
    ELSE IF Len(ks.keys) < 1 \/ Len(ks.keys) > MAX_PUBKEYS_PER_MULTISIG THEN PFail
    ELSE IF k < 1 \/ k > Len(ks.keys) THEN PFail
    ELSE POk(MakeNode(ms_ctx, "MULTI", k, ks.keys, <<>>), ks.rest)

\* the node of a binary fragment whose two arguments parsed as x and y
BinaryNode(ms_ctx, fragment, x, y) ==
    IF ~y.ok \/ y.rest = <<>> \/ Head(y.rest) # ")" THEN PFail
    ELSE POk(MakeNode(ms_ctx, fragment, 0, <<>>, <<x.node, y.node>>), Tail(y.rest))

\* a parsed expression under the wrappers of its prefix
WrappedNode(ms_ctx, letters, r) ==
    IF ~r.ok THEN PFail ELSE POk(ApplyWrappers(ms_ctx, letters, r.node), r.rest)

\* a parse that has to use up the whole text
WholeText(r) ==
    IF r.ok /\ r.rest = <<>> THEN [ok |-> TRUE, node |-> r.node]
    ELSE [ok |-> FALSE, node |-> NoNode]

RECURSIVE ParseWrapped(_, _)
RECURSIVE ParseExpr(_, _)
RECURSIVE ParseSecond(_, _, _)

\* one expression, without a wrapper prefix
ParseExpr(in, ms_ctx) ==
    IF in = <<>> THEN PFail
    ELSE IF in[1] = "0" THEN POk(MakeNode(ms_ctx, "JUST_0", 0, <<>>, <<>>), Tail(in))
    ELSE IF in[1] = "1" THEN POk(MakeNode(ms_ctx, "JUST_1", 0, <<>>, <<>>), Tail(in))
    ELSE IF Len(in) < 2 \/ in[2] # "(" THEN PFail
    ELSE LET name == in[1]
             args == SubSeq(in, 3, Len(in))
             close == FindNextChar(args, ")")
         IN
         CASE name \in {"pk", "pk_k"} ->
                IF close < 2 THEN PFail
                ELSE LET key == SKC_FromString(SubSeq(args, 1, close - 1))
                         pk_k == MakeNode(ms_ctx, "PK_K", 0, <<key>>, <<>>)
                         rest == SubSeq(args, close + 1, Len(args))
                     IN  IF name = "pk"
                         THEN POk(MakeNode(ms_ctx, "WRAP_C", 0, <<>>, <<pk_k>>), rest)
                         ELSE POk(pk_k, rest)
           [] name \in {"older", "after"} ->
                IF close # 2 THEN PFail
                ELSE LET num == ToIntegral(args[1])
                     IN  IF num < 1 \/ num > 2147483647 THEN PFail
                         ELSE POk(MakeNode(ms_ctx,
                                           IF name = "older" THEN "OLDER" ELSE "AFTER",
                                           num, <<>>, <<>>),
                                  SubSeq(args, 3, Len(args)))
           [] name = "multi" ->
                IF IsTapscript(ms_ctx) THEN PFail
                ELSE LET next_comma == FindNextChar(args, ",")
                     IN  IF next_comma # 2 \/ ToIntegral(args[1]) < 0 THEN PFail
                         ELSE MultiNode(ms_ctx, ToIntegral(args[1]),
                                        ParseMultiKeys(SubSeq(args, 3, Len(args)), <<>>))
           [] name \in DOMAIN BinaryFragments ->
                ParseSecond(ms_ctx, BinaryFragments[name], ParseWrapped(args, ms_ctx))
           [] OTHER -> PFail

\* the second argument of a binary fragment, after the first one parsed as x
ParseSecond(ms_ctx, fragment, x) ==
    IF ~x.ok \/ x.rest = <<>> \/ Head(x.rest) # "," THEN PFail
    ELSE BinaryNode(ms_ctx, fragment, x, ParseWrapped(Tail(x.rest), ms_ctx))

\* an expression with an optional wrapper prefix "letters:"
ParseWrapped(in, ms_ctx) ==
    LET colon == ColonIndex(in, 2)
    IN  IF colon = 0 THEN ParseExpr(in, ms_ctx)
        ELSE LET letters == SubSeq(in, 1, colon - 1)
             IN  IF \E i \in 1..Len(letters) : letters[i] \notin WrapperLetters
                 THEN PFail
                 ELSE WrappedNode(ms_ctx, letters,
                                  ParseExpr(SubSeq(in, colon + 1, Len(in)), ms_ctx))

\* miniscript::FromString: the tree of a text, of whatever type; nothing if
\* the text is not an expression or is followed by anything
FromString(str, ms_ctx) == WholeText(ParseWrapped(str, ms_ctx))

IsWrapperLike(n) ==
    \/ n.fragment \in {"WRAP_A", "WRAP_S", "WRAP_C", "WRAP_V"}
    \/ (n.fragment = "AND_V" /\ n.subs[2].fragment = "JUST_1")
    \/ (n.fragment = "OR_I" /\ n.subs[1].fragment = "JUST_0")
    \/ (n.fragment = "OR_I" /\ n.subs[2].fragment = "JUST_0")

RECURSIVE KeysToString(_)
KeysToString(keys) ==
    IF keys = <<>> THEN <<>>
    ELSE <<",">> \o SKC_ToString(Head(keys)) \o KeysToString(Tail(keys))

BinaryNames ==
    [AND_V |-> "and_v", AND_B |-> "and_b", OR_B |-> "or_b", OR_D |-> "or_d",
     OR_I |-> "or_i"]

\* Node::ToString; wrapped says that the parent printed a wrapper letter
RECURSIVE ToStringRec(_, _)
ToStringRec(n, wrapped) ==
    LET ret == IF wrapped THEN <<":">> ELSE <<>>
        sub(i) == ToStringRec(n.subs[i], IsWrapperLike(n))
    IN
    CASE n.fragment = "WRAP_A" -> <<"a">> \o sub(1)
      [] n.fragment = "WRAP_S" -> <<"s">> \o sub(1)
      [] n.fragment = "WRAP_C" ->
            IF n.subs[1].fragment = "PK_K"
            THEN ret \o <<"pk", "(">> \o SKC_ToString(n.subs[1].keys[1]) \o <<")">>
            ELSE <<"c">> \o sub(1)
      [] n.fragment = "WRAP_V" -> <<"v">> \o sub(1)
      [] n.fragment = "AND_V" /\ n.subs[2].fragment = "JUST_1" -> <<"t">> \o sub(1)
      [] n.fragment = "OR_I" /\ n.subs[1].fragment = "JUST_0" -> <<"l">> \o sub(2)
      [] n.fragment = "OR_I" /\ n.subs[2].fragment = "JUST_0" -> <<"u">> \o sub(1)
      [] n.fragment = "PK_K" ->
            ret \o <<"pk_k", "(">> \o SKC_ToString(n.keys[1]) \o <<")">>
      [] n.fragment = "AFTER" -> ret \o <<"after", "(", NumToString(n.k), ")">>
      [] n.fragment = "OLDER" -> ret \o <<"older", "(", NumToString(n.k), ")">>
      [] n.fragment = "JUST_1" -> ret \o <<"1">>
      [] n.fragment = "JUST_0" -> ret \o <<"0">>
      [] n.fragment = "MULTI" ->
            ret \o <<"multi", "(", NumToString(n.k)>> \o KeysToString(n.keys) \o <<")">>
      [] n.fragment \in DOMAIN BinaryNames ->
            ret \o <<BinaryNames[n.fragment], "(">> \o sub(1) \o <<",">> \o sub(2)
                \o <<")">>
      [] OTHER -> <<"?">>

NodeToString(n) == ToStringRec(n, FALSE)



(***************************************************************************)
(* Scripts.  A script is the sequence of its elements: an opcode, a data   *)
(* push with its bytes, or a number push (OP_0, OP_1..OP_16 or a minimal   *)
(* CScriptNum push).  Two scripts are byte-identical iff they are equal.   *)
(***************************************************************************)
Op(name) == [op |-> name, data |-> <<>>, n |-> 0]
Push(bytes) == [op |-> "PUSH", data |-> bytes, n |-> 0]
Num(k) == [op |-> "NUM", data |-> <<>>, n |-> k]

\* Node::ToScript; verify says that the parent is followed by OP_VERIFY
RECURSIVE ToScriptRec(_, _)
ToScriptRec(n, verify) ==
    CASE n.fragment = "PK_K" -> <<Push(SKC_ToPKBytes(n.m_script_ctx, n.keys[1]))>>
      [] n.fragment = "OLDER" -> <<Num(n.k), Op("OP_CHECKSEQUENCEVERIFY")>>
      [] n.fragment = "AFTER" -> <<Num(n.k), Op("OP_CHECKLOCKTIMEVERIFY")>>
      [] n.fragment = "JUST_1" -> <<Num(1)>>
      [] n.fragment = "JUST_0" -> <<Num(0)>>
      [] n.fragment = "WRAP_A" ->
            <<Op("OP_TOALTSTACK")>> \o ToScriptRec(n.subs[1], FALSE)
                \o <<Op("OP_FROMALTSTACK")>>
      [] n.fragment = "WRAP_S" -> <<Op("OP_SWAP")>> \o ToScriptRec(n.subs[1], verify)
      [] n.fragment = "WRAP_C" ->
            ToScriptRec(n.subs[1], FALSE)
                \o <<Op(IF verify THEN "OP_CHECKSIGVERIFY" ELSE "OP_CHECKSIG")>>
      [] n.fragment = "WRAP_V" ->
            ToScriptRec(n.subs[1], TRUE)
                \o (IF Has(n.subs[1].typ, {"x"}) THEN <<Op("OP_VERIFY")>> ELSE <<>>)
      [] n.fragment = "AND_V" ->
            ToScriptRec(n.subs[1], FALSE) \o ToScriptRec(n.subs[2], verify)
      [] n.fragment = "AND_B" ->
            ToScriptRec(n.subs[1], FALSE) \o ToScriptRec(n.subs[2], FALSE)
                \o <<Op("OP_BOOLAND")>>
      [] n.fragment = "OR_B" ->
            ToScriptRec(n.subs[1], FALSE) \o ToScriptRec(n.subs[2], FALSE)
                \o <<Op("OP_BOOLOR")>>
      [] n.fragment = "OR_D" ->
            ToScriptRec(n.subs[1], FALSE) \o <<Op("OP_IFDUP"), Op("OP_NOTIF")>>
                \o ToScriptRec(n.subs[2], FALSE) \o <<Op("OP_ENDIF")>>
      [] n.fragment = "OR_I" ->
            <<Op("OP_IF")>> \o ToScriptRec(n.subs[1], FALSE) \o <<Op("OP_ELSE")>>
                \o ToScriptRec(n.subs[2], FALSE) \o <<Op("OP_ENDIF")>>
      [] n.fragment = "MULTI" ->
            <<Num(n.k)>>
                \o [i \in 1..Len(n.keys) |->
                        Push(SKC_ToPKBytes(n.m_script_ctx, n.keys[i]))]
                \o <<Num(Len(n.keys)),
                     Op(IF verify THEN "OP_CHECKMULTISIGVERIFY" ELSE "OP_CHECKMULTISIG")>>
      [] OTHER -> <<>>

NodeToScript(n) == ToScriptRec(n, FALSE)

\* DecomposeScript: the elements of a script, the ...VERIFY opcodes split in two
RECURSIVE DecomposeScript(_)
DecomposeScript(script) ==
    IF script = <<>> THEN <<>>
    ELSE LET e == Head(script)
         IN  (CASE e.op = "OP_CHECKSIGVERIFY" -> <<Op("OP_CHECKSIG"), Op("OP_VERIFY")>>
                [] e.op = "OP_CHECKMULTISIGVERIFY" ->
                        <<Op("OP_CHECKMULTISIG"), Op("OP_VERIFY")>>
                [] OTHER -> <<e>>)
             \o DecomposeScript(Tail(script))

PubKeyPushLen(ms_ctx) == IF IsTapscript(ms_ctx) THEN 32 ELSE 33

\* the n keys of a CHECKMULTISIG, read backwards; each a 33 byte push
RECURSIVE DecodeMultiKeys(_, _, _)
DecodeMultiKeys(in, n, keys) ==
    IF n = 0 THEN [ok |-> TRUE, keys |-> keys, rest |-> in]
    ELSE IF in = <<>> \/ in[1].op # "PUSH" \/ Len(in[1].data) # 33
         THEN [ok |-> FALSE, keys |-> <<>>, rest |-> <<>>]
    ELSE DecodeMultiKeys(Tail(in), n - 1, <<SKC_FromPKBytes(in[1].data)>> \o keys)

\* a decoded expression r under the one-child fragment read before it
DecodedWrap(ms_ctx, fragment, r) ==
    IF ~r.ok THEN PFail ELSE POk(MakeNode(ms_ctx, fragment, 0, <<>>, <<r.node>>), r.rest)

\* the node of a two-child fragment whose children decoded as x and y
DecodedBinary(ms_ctx, fragment, x, y) ==
    IF ~x.ok THEN PFail
    ELSE POk(MakeNode(ms_ctx, fragment, 0, <<>>, <<x.node, y.node>>), x.rest)

\* k and the node of a CHECKMULTISIG whose n keys decoded as ks
DecodedMulti(ms_ctx, n, ks) ==
    IF ~ks.ok \/ ks.rest = <<>> \/ ks.rest[1].op # "NUM" \/ ks.rest[1].n < 1
        \/ ks.rest[1].n > n
    THEN PFail
    ELSE POk(MakeNode(ms_ctx, "MULTI", ks.rest[1].n, ks.keys, <<>>), Tail(ks.rest))

\* a W_EXPR body r and the opcode that has to precede it
DecodedW(ms_ctx, fragment, opcode, r) ==
    IF ~r.ok \/ r.rest = <<>> \/ r.rest[1].op # opcode THEN PFail
    ELSE POk(MakeNode(ms_ctx, fragment, 0, <<>>, <<r.node>>), Tail(r.rest))

\* or_i: x is preceded by OP_IF
DecodedOrI(ms_ctx, x, y) ==
    IF ~x.ok \/ x.rest = <<>> \/ x.rest[1].op # "OP_IF" THEN PFail
    ELSE POk(MakeNode(ms_ctx, "OR_I", 0, <<>>, <<x.node, y.node>>), Tail(x.rest))

RECURSIVE DecodeSingle(_, _)
RECURSIVE DecodeBKV(_, _)
RECURSIVE DecodeW(_, _)
RECURSIVE DecodeBool(_, _, _)
RECURSIVE DecodeEndIf(_, _)
RECURSIVE DecodeAndV(_, _)

\* SINGLE_BKV_EXPR: one expression that is no and_v, read from the end of
\* the script (in is the script reversed)
DecodeSingle(in, ms_ctx) ==
    IF in = <<>> THEN PFail
    ELSE
    LET e == in[1]
        rest == Tail(in)
    IN
    CASE e = Num(1) -> POk(MakeNode(ms_ctx, "JUST_1", 0, <<>>, <<>>), rest)
      [] e = Num(0) -> POk(MakeNode(ms_ctx, "JUST_0", 0, <<>>, <<>>), rest)
      [] e.op = "PUSH" /\ Len(e.data) = PubKeyPushLen(ms_ctx) ->
            POk(MakeNode(ms_ctx, "PK_K", 0, <<SKC_FromPKBytes(e.data)>>, <<>>), rest)
      [] e.op \in {"OP_CHECKSEQUENCEVERIFY", "OP_CHECKLOCKTIMEVERIFY"} ->
            IF rest = <<>> \/ rest[1].op # "NUM" \/ rest[1].n < 1
                \/ rest[1].n > 2147483647
            THEN PFail
            ELSE POk(MakeNode(ms_ctx,
                              IF e.op = "OP_CHECKSEQUENCEVERIFY" THEN "OLDER" ELSE "AFTER",
                              rest[1].n, <<>>, <<>>),
                     Tail(rest))
      [] e.op = "OP_CHECKMULTISIG" ->
            IF IsTapscript(ms_ctx) \/ rest = <<>> \/ rest[1].op # "NUM" THEN PFail
            ELSE IF rest[1].n < 1 \/ rest[1].n > MAX_PUBKEYS_PER_MULTISIG
                    \/ Len(rest) < 2 + rest[1].n
            THEN PFail
            ELSE DecodedMulti(ms_ctx, rest[1].n,
                              DecodeMultiKeys(Tail(rest), rest[1].n, <<>>))
      [] e.op \in {"OP_CHECKSIG", "OP_VERIFY"} ->
            DecodedWrap(ms_ctx, IF e.op = "OP_CHECKSIG" THEN "WRAP_C" ELSE "WRAP_V",
                        DecodeSingle(rest, ms_ctx))
      [] e.op \in {"OP_BOOLAND", "OP_BOOLOR"} ->
            DecodeBool(ms_ctx, IF e.op = "OP_BOOLAND" THEN "AND_B" ELSE "OR_B",
                       DecodeW(rest, ms_ctx))
      [] e.op = "OP_ENDIF" -> DecodeEndIf(ms_ctx, DecodeBKV(rest, ms_ctx))
      [] OTHER -> PFail

\* and_b / or_b: the left child, after the right one decoded as y
DecodeBool(ms_ctx, fragment, y) ==
    IF ~y.ok THEN PFail
    ELSE DecodedBinary(ms_ctx, fragment, DecodeSingle(y.rest, ms_ctx), y)

\* or_i / or_d: the left child, after the right one decoded as y
DecodeEndIf(ms_ctx, y) ==
    IF ~y.ok \/ y.rest = <<>> THEN PFail
    ELSE IF y.rest[1].op = "OP_ELSE"
    THEN DecodedOrI(ms_ctx, DecodeBKV(Tail(y.rest), ms_ctx), y)
    ELSE IF y.rest[1].op = "OP_NOTIF" /\ Len(y.rest) >= 2 /\ y.rest[2].op = "OP_IFDUP"
    THEN DecodedBinary(ms_ctx, "OR_D", DecodeSingle(Tail(Tail(y.rest)), ms_ctx), y)
    ELSE PFail

\* BKV_EXPR: an expression, preceded by the left children of and_v as long
\* as the script goes on with something that can end an expression
DecodeBKV(in, ms_ctx) == DecodeAndV(ms_ctx, DecodeSingle(in, ms_ctx))

DecodeAndV(ms_ctx, y) ==
    IF ~y.ok THEN PFail
    ELSE IF y.rest # <<>>
            /\ y.rest[1].op \notin {"OP_IF", "OP_ELSE", "OP_NOTIF", "OP_TOALTSTACK",
                                    "OP_SWAP"}
    THEN DecodedBinary(ms_ctx, "AND_V", DecodeBKV(y.rest, ms_ctx), y)
    ELSE y

\* W_EXPR: an a: or s: wrapped expression
DecodeW(in, ms_ctx) ==
    IF in # <<>> /\ in[1].op = "OP_FROMALTSTACK"
    THEN DecodedW(ms_ctx, "WRAP_A", "OP_TOALTSTACK", DecodeBKV(Tail(in), ms_ctx))
    ELSE DecodedW(ms_ctx, "WRAP_S", "OP_SWAP", DecodeBKV(in, ms_ctx))

\* a decoding that has to use up the whole script and be valid at top level
WholeScript(r) ==
    IF r.ok /\ r.rest = <<>> /\ NodeIsValidTopLevel(r.node)
    THEN [ok |-> TRUE, node |-> r.node]
    ELSE [ok |-> FALSE, node |-> NoNode]

\* miniscript::FromScript: the tree a script decodes to; nothing unless the
\* whole script is one expression that is valid at top level
FromScript(script, ms_ctx) ==
    WholeScript(DecodeBKV(Reverse(DecomposeScript(script)), ms_ctx))


(***************************************************************************)
(* miniscript_wrapper.cpp: the state of the wrapper and of its caller.     *)
(***************************************************************************)
VARIABLES
    oom,        \* malloc / new cannot allocate
    env,        \* the text or script and the context the caller starts from
    heap,       \* the MiniscriptNode objects; a handle is an index into it
    born,       \* per handle: the call that made it and what it was given
    last,       \* the most recent call of the caller and what it returned
    thr,        \* per thread: its miniscript_satisfy call and result
    g_current_params,   \* stubs.cpp: the chain parameters that are selected
    params_mutex,       \* the thread that holds the params mutex, or NoThread
    dthr,       \* per thread: its descriptor call, its node and its results
    fatal,      \* the process aborted, or an exception left an API function
    adp         \* the most recent call of a CallbackSatisfier callback adapter

\* a char* that is null
NullStr == "nullptr"
\* the content of an out variable the caller never initialised
Garbage == -1

Handles == 1..Len(heap)

strdup_safe(str) == IF oom THEN NullStr ELSE str

\* the switch on the C enum MiniscriptContext
MsContextOf(ctx) ==
    CASE ctx = MINISCRIPT_CONTEXT_WSH -> P2WSH
      [] ctx = MINISCRIPT_CONTEXT_TAPSCRIPT -> TAPSCRIPT
      [] OTHER -> "default"

\* the mutant of the constructor that stores the segwit v0 context
NewMiniscriptNode_wsh(n, c) == [node |-> n, ctx |-> P2WSH]

\* the constructor of struct MiniscriptNode
NewMiniscriptNode(n, c) == [node |-> n, ctx |-> c]

NoObj == NewMiniscriptNode(NoNode, P2WSH)

\* what a parse call leaves behind: the MiniscriptResult, the content of
\* *out_node (pre: its content before the call) and the object it made
ParseRet(success, msg, out_node, created, obj) ==
    [success |-> success, error_message |-> msg, out_node |-> out_node,
     created |-> created, obj |-> obj]

\* the mutant of the end of a parse function that does not check IsValid
ParsedResult_unchecked(node, failed, ctx, fresh) ==
    IF ~node.ok THEN ParseRet(FALSE, strdup_safe(failed), NULL, FALSE, NoObj)
    ELSE ParseRet(TRUE, NullStr, fresh, TRUE,
                  NewMiniscriptNode(node.node, MsContextOf(ctx)))

\* the end of both parse functions, once the library has returned node:
\* the null check, the IsValid check and the new MiniscriptNode
ParsedResult(node, failed, ctx, fresh) ==
    IF ~node.ok THEN ParseRet(FALSE, strdup_safe(failed), NULL, FALSE, NoObj)
    ELSE IF ~NodeIsValid(node.node)
    THEN ParseRet(FALSE, strdup_safe("Parsed miniscript is not valid"), NULL, FALSE, NoObj)
    ELSE ParseRet(TRUE, NullStr, fresh, TRUE,
                  NewMiniscriptNode(node.node, MsContextOf(ctx)))

miniscript_from_string(input_null, input, ctx, out_null, pre, fresh) ==
    IF input_null \/ out_null
    THEN ParseRet(FALSE, strdup_safe("Invalid arguments: null pointer"), pre, FALSE, NoObj)
    ELSE IF MsContextOf(ctx) = "default"
    THEN ParseRet(FALSE, strdup_safe("Invalid context"), NULL, FALSE, NoObj)
    ELSE IF oom
    THEN ParseRet(FALSE, strdup_safe("std::bad_alloc"), NULL, FALSE, NoObj)
    ELSE ParsedResult(FromString(input, MsContextOf(ctx)), "Failed to parse miniscript",
                      ctx, fresh)

miniscript_from_script(script_null, script, ctx, out_null, pre, fresh) ==
    IF script_null \/ out_null
    THEN ParseRet(FALSE, strdup_safe("Invalid arguments: null pointer"), pre, FALSE, NoObj)
    ELSE IF MsContextOf(ctx) = "default"
    THEN ParseRet(FALSE, strdup_safe("Invalid context"), NULL, FALSE, NoObj)
    ELSE IF oom
    THEN ParseRet(FALSE, strdup_safe("std::bad_alloc"), NULL, FALSE, NoObj)
    ELSE ParsedResult(FromScript(script, MsContextOf(ctx)),
                      "Failed to parse script as miniscript", ctx, fresh)

\* !node || !node->node
NullNode(h) == h = NULL \/ heap[h].node.fragment = "NONE"

\* the returned char*: null, or the text
miniscript_to_string(h) ==
    IF NullNode(h) THEN [null |-> TRUE, str |-> <<>>]
    ELSE IF oom THEN [null |-> TRUE, str |-> <<>>]
    ELSE [null |-> FALSE, str |-> NodeToString(heap[h].node)]

\* the returned bool and *out_script
miniscript_to_script(h, out_null) ==
    IF NullNode(h) \/ out_null THEN [ok |-> FALSE, script |-> <<>>]
    ELSE IF oom THEN [ok |-> FALSE, script |-> <<>>]
    ELSE [ok |-> TRUE, script |-> NodeToScript(heap[h].node)]

miniscript_is_valid(h) ==
    IF NullNode(h) THEN FALSE ELSE NodeIsValid(heap[h].node)

miniscript_is_valid_top_level(h) ==
    IF NullNode(h) THEN FALSE ELSE NodeIsValidTopLevel(heap[h].node)

TypeLetters == <<"B", "V", "K", "W", "z", "o", "n", "d", "u", "e", "f", "s", "m", "x", "k">>

RECURSIVE TypeString(_, _)
TypeString(typ, letters) ==
    IF letters = <<>> THEN <<>>
    ELSE (IF Head(letters) \in typ THEN <<Head(letters)>> ELSE <<>>)
             \o TypeString(typ, Tail(letters))

\* the returned char*: null, or the letters of the type in the fixed order
miniscript_get_type(h) ==
    IF NullNode(h) THEN [null |-> TRUE, str |-> <<>>]
    ELSE IF oom THEN [null |-> TRUE, str |-> <<>>]
    ELSE [null |-> FALSE, str |-> TypeString(heap[h].node.typ, TypeLetters)]

miniscript_is_non_malleable(h) ==
    IF NullNode(h) THEN FALSE ELSE Has(heap[h].node.typ, {"m"})

miniscript_needs_signature(h) ==
    IF NullNode(h) THEN FALSE ELSE Has(heap[h].node.typ, {"s"})

\* the mutant that reports the k property itself
miniscript_has_timelock_mix_k(h) ==
    IF NullNode(h) THEN FALSE ELSE Has(heap[h].node.typ, {"k"})

miniscript_has_timelock_mix(h) ==
    IF NullNode(h) THEN FALSE ELSE ~Has(heap[h].node.typ, {"k"})

miniscript_get_script_size(h, out_null) ==
    IF NullNode(h) \/ out_null THEN [ok |-> FALSE, size |-> 0]
    ELSE [ok |-> TRUE, size |-> heap[h].node.scriptlen]

\* the mutant that asks for a valid top-level tree only
miniscript_is_sane_top_level(h) ==
    IF NullNode(h) THEN FALSE ELSE NodeIsValidTopLevel(heap[h].node)

miniscript_is_sane(h) ==
    IF NullNode(h) THEN FALSE ELSE NodeIsSane(heap[h].node)

miniscript_check_duplicate_key(h) ==
    IF NullNode(h) THEN FALSE ELSE CheckDuplicateKey(heap[h].node)

\* the copy of an optional number into *out: false if there is none
OptionalOut(opt) ==
    IF opt.valid THEN [ok |-> TRUE, size |-> opt.value] ELSE [ok |-> FALSE, size |-> 0]

miniscript_max_satisfaction_size(h, out_null) ==
    IF NullNode(h) \/ out_null THEN [ok |-> FALSE, size |-> 0]
    ELSE OptionalOut(GetWitnessSize(heap[h].node))

miniscript_get_stack_size(h, out_null) ==
    IF NullNode(h) \/ out_null THEN [ok |-> FALSE, size |-> 0]
    ELSE OptionalOut(GetStackSize(heap[h].node))

\* miniscript_find_insane_sub: the handle it returns
miniscript_find_insane_sub(h) ==
    IF NullNode(h) THEN NULL
    ELSE IF FindInsaneSub(heap[h].node).fragment = "NONE" THEN NULL
    ELSE NULL



(***************************************************************************)
(* CallbackSatisfier: the adapter between the library and the callbacks of *)
(* the caller.  A SatisfierCallbacks value says which callback pointers    *)
(* are set and how the callbacks answer: sign is a function from the key   *)
(* bytes it is handed to its answer, a record of the returned availability *)
(* and of what it left in sig_out / sig_len_out.                           *)
(***************************************************************************)
HexDigit(c) ==
    CASE c = "0" -> 0 [] c = "1" -> 1 [] c = "2" -> 2 [] c = "3" -> 3 [] c = "4" -> 4
      [] c = "5" -> 5 [] c = "6" -> 6 [] c = "7" -> 7 [] c = "8" -> 8 [] c = "9" -> 9
      [] c \in {"a", "A"} -> 10 [] c \in {"b", "B"} -> 11 [] c \in {"c", "C"} -> 12
      [] c \in {"d", "D"} -> 13 [] c \in {"e", "E"} -> 14 [] c \in {"f", "F"} -> 15
      [] OTHER -> 0 - 1

\* sscanf(str + i, "%02x", &byte): the number of conversions and the byte
ScanHexByte(str, i) ==
    IF HexDigit(str[i]) < 0 THEN [n |-> 0, byte |-> 0]
    ELSE IF i + 1 <= Len(str) /\ HexDigit(str[i + 1]) >= 0
    THEN [n |-> 1, byte |-> 16 * HexDigit(str[i]) + HexDigit(str[i + 1])]
    ELSE [n |-> 1, byte |-> HexDigit(str[i])]

PKPlaceholder(ms_ctx) ==
    IF IsTapscript(ms_ctx) THEN Rep(PKBytesTap, 0) ELSE Rep(PKBytesWsh, 0)

\* the loop of CallbackSatisfier::ToPKBytes from index i on
RECURSIVE HexBytesFrom(_, _, _, _)
HexBytesFrom(str, i, result, ms_ctx) ==
    IF i > Len(str) THEN result
    ELSE IF ScanHexByte(str, i).n = 1
    THEN HexBytesFrom(str, i + 2, Append(result, ScanHexByte(str, i).byte), ms_ctx)
    ELSE PKPlaceholder(ms_ctx)

\* the constructor of CallbackSatisfier
CallbackSatisfier(cb, ctx) == [callbacks |-> cb, ms_ctx |-> ctx]

\* CallbackSatisfier::ToPKBytes
CS_ToPKBytes(satisfier, key) ==
    IF Len(key.str) >= 2 THEN HexBytesFrom(key.str, 1, <<>>, satisfier.ms_ctx)
    ELSE PKPlaceholder(satisfier.ms_ctx)

Availability_NO == "NO"
Availability_YES == "YES"
Availability_MAYBE == "MAYBE"

\* the answer of a sign callback for key bytes it was not told about
SignDefault == [avail |-> MINISCRIPT_AVAILABILITY_NO, sig_null |-> TRUE, sig |-> <<>>]

SignAnswer(cb, key_bytes) ==
    IF key_bytes \in DOMAIN cb.sign THEN cb.sign[key_bytes] ELSE SignDefault

\* what Sign and the hash adapters do with the buffer the callback left in
\* its out pointer, in program order: copied, which reads it, then freed
Copied == <<"read", "free">>
Dropped(null) == IF null THEN <<>> ELSE <<"free">>

\* a Sign that takes the provider's YES without a look at the signature
SignResult_unchecked(ans, sig) ==
    IF ans.avail = MINISCRIPT_AVAILABILITY_YES
    THEN [avail |-> Availability_YES, sig |-> IF ans.sig_null THEN <<>> ELSE ans.sig,
          ops |-> Dropped(ans.sig_null)]
    ELSE IF ans.avail = MINISCRIPT_AVAILABILITY_MAYBE
    THEN [avail |-> Availability_MAYBE, sig |-> Rep(DummySigLen, DummySigByte),
          ops |-> Dropped(ans.sig_null)]
    ELSE [avail |-> Availability_NO, sig |-> sig, ops |-> Dropped(ans.sig_null)]

\* the end of CallbackSatisfier::Sign, once the callback has answered ans:
\* the availability, the content of sig (which held sig before the call) and
\* what was done with the buffer in sig_out
SignResult(ans, sig) ==
    LET given == ~ans.sig_null /\ Len(ans.sig) > 0
    IN  IF ans.avail = MINISCRIPT_AVAILABILITY_YES /\ given
        THEN [avail |-> Availability_YES, sig |-> ans.sig, ops |-> Copied]
        ELSE IF ans.avail = MINISCRIPT_AVAILABILITY_MAYBE
        THEN IF given
             THEN [avail |-> Availability_MAYBE, sig |-> ans.sig, ops |-> Copied]
             ELSE [avail |-> Availability_MAYBE, sig |-> Rep(DummySigLen, DummySigByte),
                   ops |-> Dropped(ans.sig_null)]
        ELSE [avail |-> Availability_NO, sig |-> sig, ops |-> Dropped(ans.sig_null)]

\* a Sign that never calls the sign callback
CS_Sign_uncalled(satisfier, key, sig) ==
    [avail |-> Availability_NO, sig |-> sig, ops |-> <<>>]

\* CallbackSatisfier::Sign: the availability and the content of sig, which
\* held sig before the call
CS_Sign(satisfier, key, sig) ==
    IF satisfier.callbacks.null \/ ~satisfier.callbacks.sign_callback
    THEN [avail |-> Availability_NO, sig |-> sig, ops |-> <<>>]
    ELSE SignResult(SignAnswer(satisfier.callbacks, CS_ToPKBytes(satisfier, key)), sig)

\* CallbackSatisfier::CheckAfter
CS_CheckAfter(satisfier, value) ==
    IF satisfier.callbacks.null \/ ~satisfier.callbacks.check_after_callback THEN FALSE
    ELSE satisfier.callbacks.after

\* a CheckOlder that never asks the provider
CS_CheckOlder_unasked(satisfier, value) == FALSE

\* CallbackSatisfier::CheckOlder
CS_CheckOlder(satisfier, value) ==
    IF satisfier.callbacks.null \/ ~satisfier.callbacks.check_older_callback THEN FALSE
    ELSE satisfier.callbacks.older

\* the four hash callbacks of SatisfierCallbacks
HashCallbacks == {"sat_sha256_callback", "sat_ripemd160_callback",
                  "sat_hash256_callback", "sat_hash160_callback"}

\* the end of a hash adapter, once the callback has answered ans: the
\* availability, the content of preimage (which held preimage before the
\* call) and what was done with the buffer in preimage_out
PreimageResult(ans, preimage) ==
    IF ans.avail = MINISCRIPT_AVAILABILITY_YES /\ ~ans.preimage_null
           /\ Len(ans.preimage) > 0
    THEN [avail |-> Availability_YES, preimage |-> ans.preimage, ops |-> Copied]
    ELSE IF ans.avail = MINISCRIPT_AVAILABILITY_MAYBE
    THEN [avail |-> Availability_MAYBE, preimage |-> preimage,
          ops |-> Dropped(ans.preimage_null)]
    ELSE [avail |-> Availability_NO, preimage |-> preimage,
          ops |-> Dropped(ans.preimage_null)]

\* the body the four hash adapters share, fn being the callback each uses
CS_SatHash(satisfier, fn, hash, preimage) ==
    IF satisfier.callbacks.null \/ ~satisfier.callbacks.hash_callback[fn]
    THEN [avail |-> Availability_NO, preimage |-> preimage, ops |-> <<>>]
    ELSE PreimageResult(satisfier.callbacks.preimage[fn], preimage)

\* CallbackSatisfier::SatSHA256, ::SatRIPEMD160, ::SatHASH256, ::SatHASH160
CS_SatSHA256(satisfier, hash, preimage) ==
    CS_SatHash(satisfier, "sat_sha256_callback", hash, preimage)
CS_SatRIPEMD160(satisfier, hash, preimage) ==
    CS_SatHash(satisfier, "sat_ripemd160_callback", hash, preimage)
CS_SatHASH256(satisfier, hash, preimage) ==
    CS_SatHash(satisfier, "sat_hash256_callback", hash, preimage)
CS_SatHASH160(satisfier, hash, preimage) ==
    CS_SatHash(satisfier, "sat_hash160_callback", hash, preimage)


(***************************************************************************)
(* The satisfier of the library: InputStack, its operators + and |,        *)
(* ProduceInput and Node::Satisfy.                                         *)
(***************************************************************************)
\* the size of an InputStack that is not available (SIZE_MAX in the library)
SizeOfNone == 0 - 1

InputStack(data) ==
    [available |-> Availability_YES, has_sig |-> FALSE, malleable |-> FALSE,
     non_canon |-> FALSE, size |-> Len(data) + 1, stack |-> <<data>>]

EMPTY ==
    [available |-> Availability_YES, has_sig |-> FALSE, malleable |-> FALSE,
     non_canon |-> FALSE, size |-> 0, stack |-> <<>>]

SetAvailable(a, avail) ==
    IF avail = Availability_NO
    THEN [available |-> Availability_NO, has_sig |-> FALSE, malleable |-> FALSE,
          non_canon |-> FALSE, size |-> SizeOfNone, stack |-> <<>>]
    ELSE [a EXCEPT !.available = avail]

SetWithSig(a) == [a EXCEPT !.has_sig = TRUE]
SetNonCanon(a) == [a EXCEPT !.non_canon = TRUE]
SetMalleable(a) == [a EXCEPT !.malleable = TRUE]

ZERO == InputStack(<<>>)
ONE == InputStack(<<1>>)
INVALID == SetAvailable(EMPTY, Availability_NO)

\* operator+ : the concatenation of two stacks
Plus(a, b) ==
    LET c == [a EXCEPT !.stack = a.stack \o b.stack,
                       !.size = IF a.available # Availability_NO
                                   /\ b.available # Availability_NO
                                THEN a.size + b.size ELSE a.size,
                       !.has_sig = a.has_sig \/ b.has_sig,
                       !.malleable = a.malleable \/ b.malleable,
                       !.non_canon = a.non_canon \/ b.non_canon]
    IN  IF a.available = Availability_NO \/ b.available = Availability_NO
        THEN SetAvailable(c, Availability_NO)
        ELSE IF a.available = Availability_MAYBE \/ b.available = Availability_MAYBE
        THEN SetAvailable(c, Availability_MAYBE)
        ELSE c

\* operator| : the choice between two stacks
Or(a, b) ==
    IF a.available = Availability_NO THEN b
    ELSE IF b.available = Availability_NO THEN a
    ELSE IF ~a.has_sig /\ b.has_sig THEN a
    ELSE IF ~b.has_sig /\ a.has_sig THEN b
    ELSE IF a.has_sig /\ b.has_sig /\ b.malleable /\ ~a.malleable THEN a
    ELSE IF a.has_sig /\ b.has_sig /\ a.malleable /\ ~b.malleable THEN b
    ELSE LET am == IF a.has_sig THEN a ELSE SetMalleable(a)
             bm == IF b.has_sig THEN b ELSE SetMalleable(b)
         IN  IF am.available = Availability_YES /\ bm.available = Availability_YES
             THEN (IF am.size <= bm.size THEN am ELSE bm)
             ELSE IF am.available = Availability_MAYBE
                     /\ bm.available = Availability_MAYBE
             THEN (IF am.size >= bm.size THEN am ELSE bm)
             ELSE IF am.available = Availability_YES THEN am
             ELSE bm

InputResult(nsat, sat) == [nsat |-> nsat, sat |-> sat]

\* the inner loop of MULTI over j = 1 .. size - 1 for one more key
RECURSIVE MultiNextSats(_, _, _)
MultiNextSats(sats, sat, j) ==
    IF j > Len(sats) THEN <<>>
    ELSE <<Or(sats[j], Plus(sats[j - 1], sat))>> \o MultiNextSats(sats, sat, j + 1)

\* the stack that holds the signature of one key, as available as Sign said
SigStack(r) == SetAvailable(SetWithSig(InputStack(r.sig)), r.avail)

\* one round of the outer loop of MULTI: the stacks with one more key, sat
\* being the stack of its signature
MultiRound(sats, sat) ==
    <<sats[1]>> \o MultiNextSats(sats, sat, 2) \o <<Plus(sats[Len(sats)], sat)>>

\* the outer loop of MULTI; sats[j + 1] is the best stack with j signatures
RECURSIVE MultiSats(_, _, _)
MultiSats(keys, sats, ctx) ==
    IF keys = <<>> THEN sats
    ELSE MultiSats(Tail(keys), MultiRound(sats, SigStack(CS_Sign(ctx, Head(keys), <<>>))), ctx)

RECURSIVE ZeroStack(_)
ZeroStack(k) == IF k = 0 THEN ZERO ELSE Plus(ZeroStack(k - 1), ZERO)

\* the helper of ProduceInput for a fragment with children: x and y are the
\* results of the first and of the second child
CombineInput(fragment, x, y) ==
    CASE fragment = "AND_V" ->
            InputResult(SetNonCanon(Plus(y.nsat, x.sat)), Plus(y.sat, x.sat))
      [] fragment = "AND_B" ->
            InputResult(Or(Or(Plus(y.nsat, x.nsat),
                              SetNonCanon(SetMalleable(Plus(y.sat, x.nsat)))),
                           SetNonCanon(SetMalleable(Plus(y.nsat, x.sat)))),
                        Plus(y.sat, x.sat))
      [] fragment = "OR_B" ->
            InputResult(Plus(y.nsat, x.nsat),
                        Or(Or(Plus(y.nsat, x.sat), Plus(y.sat, x.nsat)),
                           SetNonCanon(SetMalleable(Plus(y.sat, x.sat)))))
      [] fragment = "OR_D" ->
            InputResult(Plus(y.nsat, x.nsat), Or(x.sat, Plus(y.sat, x.nsat)))
      [] fragment = "OR_I" ->
            InputResult(Or(Plus(x.nsat, ONE), Plus(y.nsat, ZERO)),
                        Or(Plus(x.sat, ONE), Plus(y.sat, ZERO)))
      [] fragment \in {"WRAP_A", "WRAP_S", "WRAP_C"} -> x
      [] fragment = "WRAP_V" -> InputResult(INVALID, x.sat)
      [] OTHER -> InputResult(INVALID, INVALID)

\* Node::ProduceInput: the dissatisfaction and the satisfaction of a node
RECURSIVE ProduceInput(_, _)
ProduceInput(n, ctx) ==
    CASE n.fragment = "PK_K" -> InputResult(ZERO, SigStack(CS_Sign(ctx, n.keys[1], <<>>)))
      [] n.fragment = "MULTI" ->
            InputResult(ZeroStack(n.k),
                        MultiSats(n.keys, <<ZERO>>, ctx)[n.k + 1])
      [] n.fragment = "OLDER" ->
            InputResult(INVALID, IF CS_CheckOlder(ctx, n.k) THEN EMPTY ELSE INVALID)
      [] n.fragment = "AFTER" ->
            InputResult(INVALID, IF CS_CheckAfter(ctx, n.k) THEN EMPTY ELSE INVALID)
      [] n.fragment = "JUST_0" -> InputResult(EMPTY, INVALID)
      [] n.fragment = "JUST_1" -> InputResult(INVALID, EMPTY)
      [] Len(n.subs) = 1 ->
            CombineInput(n.fragment, ProduceInput(n.subs[1], ctx),
                         InputResult(INVALID, INVALID))
      [] Len(n.subs) = 2 ->
            CombineInput(n.fragment, ProduceInput(n.subs[1], ctx),
                         ProduceInput(n.subs[2], ctx))
      [] OTHER -> InputResult(INVALID, INVALID)

\* the end of Node::Satisfy, ret being what ProduceInput returned
SatisfyResult(ret, nonmalleable) ==
    IF nonmalleable /\ (ret.sat.malleable \/ ~ret.sat.has_sig)
    THEN [avail |-> Availability_NO, stack |-> <<>>]
    ELSE [avail |-> ret.sat.available, stack |-> ret.sat.stack]

\* Node::Satisfy: the returned availability and the stack it left in `stack`
NodeSatisfy(n, ctx, nonmalleable) == SatisfyResult(ProduceInput(n, ctx), nonmalleable)

\* the keys of a tree: ProduceInput calls Sign once for each of them
RECURSIVE NodeKeys(_)
NodeKeys(n) ==
    {n.keys[i] : i \in 1..Len(n.keys)}
        \cup UNION {NodeKeys(n.subs[i]) : i \in 1..Len(n.subs)}

\* the key_bytes arguments the sign callback receives during Node::Satisfy
SignCalls(n, satisfier) ==
    IF satisfier.callbacks.null \/ ~satisfier.callbacks.sign_callback THEN {}
    ELSE {CS_ToPKBytes(satisfier, key) : key \in NodeKeys(n)}

\* the consistency checks ProduceInput makes on the result ret of every node
\* of type typ; one that fails ends in assertion_fail
InputChecks(typ, ret) ==
    LET nsat == ret.nsat.available # Availability_NO
        sat == ret.sat.available # Availability_NO
    IN  /\ (Has(typ, {"z"}) /\ nsat) => Len(ret.nsat.stack) = 0
        /\ (Has(typ, {"z"}) /\ sat) => Len(ret.sat.stack) = 0
        /\ (Has(typ, {"o"}) /\ nsat) => Len(ret.nsat.stack) = 1
        /\ (Has(typ, {"o"}) /\ sat) => Len(ret.sat.stack) = 1
        /\ (Has(typ, {"n"}) /\ nsat) => Len(ret.nsat.stack) >= 1
        /\ (Has(typ, {"n"}) /\ sat) =>
               /\ Len(ret.sat.stack) >= 1
               /\ ret.sat.stack[Len(ret.sat.stack)] # <<>>
        /\ Has(typ, {"d"}) =>
               /\ nsat
               /\ ~ret.nsat.has_sig
               /\ ~ret.nsat.malleable => ~ret.nsat.non_canon
        /\ (Has(typ, {"f"}) /\ nsat) => ret.nsat.has_sig
        /\ (Has(typ, {"s"}) /\ sat) => ret.sat.has_sig
        /\ Has(typ, {"m", "e"}) => nsat /\ ~ret.nsat.malleable
        /\ (Has(typ, {"m"}) /\ sat) => ~ret.sat.malleable
        /\ (sat /\ ~ret.sat.malleable) => ~ret.sat.non_canon

\* the checks hold at the node n and at every node below it
RECURSIVE ChecksHold(_, _)
ChecksHold(n, ctx) ==
    /\ InputChecks(n.typ, ProduceInput(n, ctx))
    /\ \A i \in 1..Len(n.subs) : ChecksHold(n.subs[i], ctx)

(***************************************************************************)
(* What the caller starts from.  A text is the sequence of its lexemes, a  *)
(* key the sequence of its characters; a script is the sequence of its     *)
(* opcodes and pushes.                                                     *)
(***************************************************************************)
T_pk == <<"pk", "(", "A", ")">>
T_c_pk_k == <<"c", ":", "pk_k", "(", "A", ")">>
T_pk_k == <<"pk_k", "(", "A", ")">>
T_pk_hex == <<"pk", "(", "0", "a", ")">>
T_older == <<"older", "(", "10", ")">>
T_older_010 == <<"older", "(", "010", ")">>
T_older_0 == <<"older", "(", "0", ")">>
T_or_i == <<"or_i", "(", "0", ",", "older", "(", "10", ")", ")">>
T_and_v == <<"and_v", "(", "v", ":", "pk", "(", "A", ")", ",", "older", "(", "10", ")", ")">>
T_and_v_bad == <<"and_v", "(", "pk", "(", "A", ")", ",", "pk", "(", "B", ")", ")">>
T_and_v_nest == <<"and_v", "(", "v", ":", "older", "(", "1", ")", ",", "and_v", "(",
                  "v", ":", "older", "(", "2", ")", ",", "older", "(", "3", ")", ")", ")">>
T_or_d == <<"or_d", "(", "pk", "(", "A", ")", ",", "and_v", "(", "v", ":", "pk", "(", "B",
            ")", ",", "older", "(", "100", ")", ")", ")">>
T_multi == <<"multi", "(", "2", ",", "A", ",", "B", ",", "C", ")">>
T_multi_bad == <<"multi", "(", "3", ",", "A", ",", "B", ")">>
T_or_b == <<"or_b", "(", "l", ":", "older", "(", "10", ")", ",", "a", "l", ":", "after", "(",
            "500000", ")", ")">>
T_and_b == <<"and_b", "(", "older", "(", "1", ")", ",", "s", ":", "pk", "(", "A", ")", ")">>
T_open == <<"pk", "(", "A">>
T_trail == <<"pk", "(", "A", ")", ")">>
T_empty == <<>>

Texts == {T_pk, T_c_pk_k, T_pk_k, T_pk_hex, T_older, T_older_010, T_older_0, T_or_i,
          T_and_v, T_and_v_bad, T_and_v_nest, T_or_d, T_multi, T_multi_bad, T_or_b,
          T_and_b, T_open, T_trail, T_empty}

\* a compressed public key (02 ...), an x-only key, and the all-zero ones
Key33 == <<2>> \o Rep(32, 7)
Key32 == Rep(32, 7)

S_pk == <<Push(Key33), Op("OP_CHECKSIG")>>
S_pk_zero == <<Push(Rep(33, 0)), Op("OP_CHECKSIG")>>
S_pk_xonly == <<Push(Key32), Op("OP_CHECKSIG")>>
S_older == <<Num(10), Op("OP_CHECKSEQUENCEVERIFY")>>
S_and_v == <<Push(Key33), Op("OP_CHECKSIGVERIFY"), Num(10), Op("OP_CHECKSEQUENCEVERIFY")>>
S_or_d == <<Push(Key33), Op("OP_CHECKSIG"), Op("OP_IFDUP"), Op("OP_NOTIF"),
            Num(100), Op("OP_CHECKSEQUENCEVERIFY"), Op("OP_ENDIF")>>
S_multi == <<Num(1), Push(Key33), Push(Rep(33, 0)), Num(2), Op("OP_CHECKMULTISIG")>>
S_key_only == <<Push(Key33)>>
S_checksig_only == <<Op("OP_CHECKSIG")>>
S_empty == <<>>

Scripts == {S_pk, S_pk_zero, S_pk_xonly, S_older, S_and_v, S_or_d, S_multi, S_key_only,
            S_checksig_only, S_empty}

\* the values a caller passes as MiniscriptContext: the two of the enum and
\* one outside it
CtxArgs == {MINISCRIPT_CONTEXT_WSH, MINISCRIPT_CONTEXT_TAPSCRIPT,
            MINISCRIPT_CONTEXT_TAPSCRIPT + 1}

Envs == [kind : {"text"}, text : Texts, script : {<<>>}]
            \cup [kind : {"script"}, text : {<<>>}, script : Scripts]

NoCall == [fn |-> "none", h |-> NULL, src |-> NULL, ctx |-> 0, in_null |-> FALSE,
           out_null |-> FALSE, pre |-> NULL, success |-> FALSE,
           error_message |-> NullStr, out_node |-> NULL, ret_null |-> TRUE,
           str |-> <<>>, script |-> <<>>, ok |-> FALSE, size |-> 0]

\* the texts the caller can pass: none, the one it started from, or the one
\* miniscript_to_string has just returned
StringArgs ==
    {[null |-> TRUE, str |-> <<>>, src |-> NULL]}
        \cup {[null |-> FALSE, str |-> env.text, src |-> NULL] : x \in {env.kind} \cap {"text"}}
        \cup {[null |-> FALSE, str |-> last.str, src |-> last.h] :
                  x \in {last.fn} \cap (IF last.ret_null THEN {} ELSE {"to_string"})}

\* the scripts the caller can pass: none, the one it started from, or the
\* one miniscript_to_script has just returned
ScriptArgs ==
    {[null |-> TRUE, script |-> <<>>, src |-> NULL]}
        \cup {[null |-> FALSE, script |-> env.script, src |-> NULL] :
                  x \in {env.kind} \cap {"script"}}
        \cup {[null |-> FALSE, script |-> last.script, src |-> last.h] :
                  x \in {last.fn} \cap (IF last.ok THEN {"to_script"} ELSE {})}

\* the out_node argument: null, or the address of a variable that holds
\* null, an earlier handle, or whatever was in memory
OutArgs ==
    {[null |-> TRUE, pre |-> NULL]}
        \cup {[null |-> FALSE, pre |-> v] : v \in {NULL, Garbage} \cup Handles}


(***************************************************************************)
(* The calls of the parse / serialize / query interface.                   *)
(***************************************************************************)
\* the API functions whose library work runs inside try { } catch (...)
CatchesAll(fn) ==
    fn \in {"from_string", "from_script", "to_string", "to_script", "get_type",
            "find_insane_sub", "satisfy"}

\* the API functions whose library work allocates: they build a tree, a
\* std::string, a CScript or a stack; the other queries read what the tree
\* computed and stored when it was built
LibraryAllocates(fn) ==
    fn \in {"from_string", "from_script", "to_string", "to_script", "get_type",
            "find_insane_sub", "satisfy"}

\* operator new throws std::bad_alloc when memory is exhausted
LibraryThrows(fn) == oom /\ LibraryAllocates(fn)

\* an exception leaves the API function fn
Escapes(fn) == LibraryThrows(fn) /\ ~CatchesAll(fn)

\* the call of fn ends: the process is lost if an exception left it
Crossed(fn) == fatal' = (fatal \/ Escapes(fn))

apivars == <<oom, env, heap, born, last, fatal>>
descvars == <<g_current_params, params_mutex, dthr>>

\* what the queries answer for a tree
Answers(obj) ==
    [to_string |-> NodeToString(obj.node),
     to_script |-> NodeToScript(obj.node),
     is_valid |-> NodeIsValid(obj.node),
     is_valid_top_level |-> NodeIsValidTopLevel(obj.node),
     get_type |-> TypeString(obj.node.typ, TypeLetters),
     is_non_malleable |-> Has(obj.node.typ, {"m"}),
     needs_signature |-> Has(obj.node.typ, {"s"}),
     has_timelock_mix |-> ~Has(obj.node.typ, {"k"}),
     get_script_size |-> obj.node.scriptlen]

\* the record of the call that made a handle, with the answers at that time
Birth(fn, ctx, src, text, script, obj) ==
    [fn |-> fn, ctx |-> ctx, src |-> src, text |-> text, script |-> script,
     answers |-> Answers(obj)]

ParseCall(fn, r, ctx, arg_null, src, out, text, script) ==
    /\ r.created => Len(heap) < MaxHandles
    /\ heap' = IF r.created THEN Append(heap, r.obj) ELSE heap
    /\ born' = IF r.created
               THEN Append(born, Birth(fn, ctx, src, text, script, r.obj))
               ELSE born
    /\ last' = [NoCall EXCEPT !.fn = fn, !.src = src, !.ctx = ctx, !.in_null = arg_null,
                              !.out_null = out.null, !.pre = out.pre,
                              !.success = r.success,
                              !.error_message = r.error_message,
                              !.out_node = r.out_node]
    /\ Crossed(fn)
    /\ UNCHANGED <<oom, env, thr, descvars, adp>>

from_string_call ==
    \E input \in StringArgs, ctx \in CtxArgs, out \in OutArgs :
        ParseCall("from_string",
                  miniscript_from_string(input.null, input.str, ctx, out.null, out.pre,
                                         Len(heap) + 1),
                  ctx, input.null, input.src, out, input.str, <<>>)

from_script_call ==
    \E input \in ScriptArgs, ctx \in CtxArgs, out \in OutArgs :
        ParseCall("from_script",
                  miniscript_from_script(input.null, input.script, ctx, out.null, out.pre,
                                         Len(heap) + 1),
                  ctx, input.null, input.src, out, <<>>, input.script)

to_string_call ==
    \E h \in Handles \cup {NULL} :
        /\ last' = [NoCall EXCEPT !.fn = "to_string", !.h = h,
                                  !.ret_null = miniscript_to_string(h).null,
                                  !.str = miniscript_to_string(h).str]
        /\ Crossed("to_string")
        /\ UNCHANGED <<oom, env, heap, born, thr, descvars, adp>>

to_script_call ==
    \E h \in Handles \cup {NULL}, out_null \in BOOLEAN :
        /\ last' = [NoCall EXCEPT !.fn = "to_script", !.h = h, !.out_null = out_null,
                                  !.ok = miniscript_to_script(h, out_null).ok,
                                  !.script = miniscript_to_script(h, out_null).script]
        /\ Crossed("to_script")
        /\ UNCHANGED <<oom, env, heap, born, thr, descvars, adp>>

BoolCall(fn, h, value) ==
    /\ last' = [NoCall EXCEPT !.fn = fn, !.h = h, !.ok = value]
    /\ Crossed(fn)
    /\ UNCHANGED <<oom, env, heap, born, thr, descvars, adp>>

is_valid_call ==
    \E h \in Handles \cup {NULL} : BoolCall("is_valid", h, miniscript_is_valid(h))

is_valid_top_level_call ==
    \E h \in Handles \cup {NULL} :
        BoolCall("is_valid_top_level", h, miniscript_is_valid_top_level(h))

is_non_malleable_call ==
    \E h \in Handles \cup {NULL} :
        BoolCall("is_non_malleable", h, miniscript_is_non_malleable(h))

needs_signature_call ==
    \E h \in Handles \cup {NULL} :
        BoolCall("needs_signature", h, miniscript_needs_signature(h))

has_timelock_mix_call ==
    \E h \in Handles \cup {NULL} :
        BoolCall("has_timelock_mix", h, miniscript_has_timelock_mix(h))

get_type_call ==
    \E h \in Handles \cup {NULL} :
        /\ last' = [NoCall EXCEPT !.fn = "get_type", !.h = h,
                                  !.ret_null = miniscript_get_type(h).null,
                                  !.str = miniscript_get_type(h).str]
        /\ Crossed("get_type")
        /\ UNCHANGED <<oom, env, heap, born, thr, descvars, adp>>

get_script_size_call ==
    \E h \in Handles \cup {NULL}, out_null \in BOOLEAN :
        /\ last' = [NoCall EXCEPT !.fn = "get_script_size", !.h = h,
                                  !.out_null = out_null,
                                  !.ok = miniscript_get_script_size(h, out_null).ok,
                                  !.size = miniscript_get_script_size(h, out_null).size]
        /\ Crossed("get_script_size")
        /\ UNCHANGED <<oom, env, heap, born, thr, descvars, adp>>

is_sane_call ==
    \E h \in Handles \cup {NULL} : BoolCall("is_sane", h, miniscript_is_sane(h))

check_duplicate_key_call ==
    \E h \in Handles \cup {NULL} :
        BoolCall("check_duplicate_key", h, miniscript_check_duplicate_key(h))

\* a query that writes a number to *out: the return value and the number
SizeCall(fn, h, out_null, r) ==
    /\ last' = [NoCall EXCEPT !.fn = fn, !.h = h, !.out_null = out_null,
                              !.ok = r.ok, !.size = r.size]
    /\ Crossed(fn)
    /\ UNCHANGED <<oom, env, heap, born, thr, descvars, adp>>

max_satisfaction_size_call ==
    \E h \in Handles \cup {NULL}, out_null \in BOOLEAN :
        SizeCall("max_satisfaction_size", h, out_null,
                 miniscript_max_satisfaction_size(h, out_null))

get_stack_size_call ==
    \E h \in Handles \cup {NULL}, out_null \in BOOLEAN :
        SizeCall("get_stack_size", h, out_null, miniscript_get_stack_size(h, out_null))

find_insane_sub_call ==
    \E h \in Handles \cup {NULL} :
        /\ last' = [NoCall EXCEPT !.fn = "find_insane_sub", !.h = h,
                                  !.out_node = miniscript_find_insane_sub(h),
                                  !.ret_null = miniscript_find_insane_sub(h) = NULL]
        /\ Crossed("find_insane_sub")
        /\ UNCHANGED <<oom, env, heap, born, thr, descvars, adp>>

(***************************************************************************)
(* miniscript_satisfy and the threads that call it.                        *)
(***************************************************************************)
SatisfactionResult(avail, stack_null, sizes_null, stack, stack_sizes, count, msg) ==
    [availability |-> avail, stack_null |-> stack_null, sizes_null |-> sizes_null,
     stack |-> stack, stack_sizes |-> stack_sizes, stack_count |-> count,
     error_message |-> msg]

\* the switch from the Availability of the library to the C enum
AvailabilityOf(avail) ==
    IF avail = Availability_YES THEN MINISCRIPT_AVAILABILITY_YES
    ELSE IF avail = Availability_MAYBE THEN MINISCRIPT_AVAILABILITY_MAYBE
    ELSE MINISCRIPT_AVAILABILITY_NO

\* a copy that allocates for an empty element too
CopyElement_allocated(bytes) == [null |-> FALSE, bytes |-> bytes]

\* the copy of one stack element: a null pointer for an empty one
CopyElement(bytes) ==
    IF bytes = <<>> THEN [null |-> TRUE, bytes |-> <<>>]
    ELSE [null |-> FALSE, bytes |-> bytes]

\* the memory malloc finds during a call: all it is asked for, or only the
\* first n allocations
Plenty == [limited |-> FALSE, n |-> 0]
UpTo(n) == [limited |-> TRUE, n |-> n]

\* the k-th malloc of a call returns a buffer
Granted(mem, k) == ~mem.limited \/ k <= mem.n

\* the number of elements of stack up to the i-th that are not empty: each
\* of them takes one malloc
NonEmptyUpTo(stack, i) == Cardinality({j \in 1..i : stack[j] # <<>>})

\* the copy of one stack element when malloc may return null: the pointer
\* stays null and nothing is copied
CopyElementIn(bytes, granted) ==
    IF bytes # <<>> /\ ~granted THEN [null |-> TRUE, bytes |-> <<>>]
    ELSE CopyElement(bytes)

\* the end of miniscript_satisfy: the availability and the copy of the stack
\* that Node::Satisfy returned as r; the mallocs are those of stack, of
\* stack_sizes and of every element that is not empty, in this order
CopyStack(r, mem) ==
    IF r.stack = <<>>
    THEN SatisfactionResult(AvailabilityOf(r.avail), TRUE, TRUE, <<>>, <<>>, 0, NullStr)
    ELSE IF ~Granted(mem, 1) \/ ~Granted(mem, 2)
    THEN SatisfactionResult(AvailabilityOf(r.avail), TRUE, TRUE, <<>>, <<>>, 0, NullStr)
    ELSE SatisfactionResult(AvailabilityOf(r.avail), FALSE, FALSE,
                            [i \in 1..Len(r.stack) |->
                                 CopyElementIn(r.stack[i],
                                               Granted(mem, 2 + NonEmptyUpTo(r.stack, i)))],
                            [i \in 1..Len(r.stack) |-> Len(r.stack[i])],
                            Len(r.stack), NullStr)

\* miniscript_satisfy with the memory it finds: when memory has run out
\* before the call Node::Satisfy throws std::bad_alloc, which is caught
miniscript_satisfy(h, cb, nonmalleable, mem) ==
    IF NullNode(h)
    THEN SatisfactionResult(MINISCRIPT_AVAILABILITY_NO, TRUE, TRUE, <<>>, <<>>, 0,
                            strdup_safe("Invalid node: null pointer"))
    ELSE IF cb.null
    THEN SatisfactionResult(MINISCRIPT_AVAILABILITY_NO, TRUE, TRUE, <<>>, <<>>, 0,
                            strdup_safe("Invalid callbacks: null pointer"))
    ELSE IF LibraryThrows("satisfy")
    THEN SatisfactionResult(MINISCRIPT_AVAILABILITY_NO, TRUE, TRUE, <<>>, <<>>, 0,
                            strdup_safe("std::bad_alloc"))
    ELSE CopyStack(NodeSatisfy(heap[h].node, CallbackSatisfier(cb, heap[h].ctx),
                               nonmalleable), mem)

\* miniscript_satisfy reaches assertion_fail: a consistency check of the
\* library fails on what the adapter made of the provider's answers
SatisfyAborts(h, cb) ==
    /\ ~NullNode(h)
    /\ ~cb.null
    /\ ~ChecksHold(heap[h].node, CallbackSatisfier(cb, heap[h].ctx))


\* the answer of a hash callback that has no preimage
PreimageDefault == [avail |-> MINISCRIPT_AVAILABILITY_NO, preimage_null |-> TRUE,
                    preimage |-> <<>>]

\* a callbacks table with no callback set, and no callbacks table at all
EmptyCallbacks ==
    [null |-> FALSE, sign_callback |-> FALSE, sign |-> <<>>,
     check_older_callback |-> FALSE, older |-> FALSE,
     check_after_callback |-> FALSE, after |-> FALSE,
     hash_callback |-> [fn \in HashCallbacks |-> FALSE],
     preimage |-> [fn \in HashCallbacks |-> PreimageDefault]]
NullCallbacks == [EmptyCallbacks EXCEPT !.null = TRUE]

\* SatisfierCallbacks values: which pointers are set and how they answer
Callbacks(sign, older, after) ==
    [EmptyCallbacks EXCEPT !.sign_callback = TRUE, !.sign = sign,
                           !.check_older_callback = TRUE, !.older = older,
                           !.check_after_callback = TRUE, !.after = after]

\* the key bytes the adapter hands out for the keys of the texts below
KeyBytesSet == {Rep(PKBytesWsh, 0), Rep(PKBytesTap, 0), <<10>>, <<11>>, <<12>>}

SignYes(kb) == [avail |-> MINISCRIPT_AVAILABILITY_YES, sig_null |-> FALSE,
                sig |-> <<DummySigByte, kb[1]>>]
SignYesEmpty == [avail |-> MINISCRIPT_AVAILABILITY_YES, sig_null |-> FALSE, sig |-> <<>>]
SignMaybe == [avail |-> MINISCRIPT_AVAILABILITY_MAYBE, sig_null |-> TRUE, sig |-> <<>>]
SignMaybeSig(kb) == [avail |-> MINISCRIPT_AVAILABILITY_MAYBE, sig_null |-> FALSE,
                     sig |-> <<DummySigByte, kb[1]>>]

\* YES with a signature longer than the one the library counts with
SignYesLong == [avail |-> MINISCRIPT_AVAILABILITY_YES, sig_null |-> FALSE,
                sig |-> Rep(DummySigLen + 2, DummySigByte)]

Providers ==
    {Callbacks([kb \in KeyBytesSet |-> SignYes(kb)], TRUE, TRUE),
     Callbacks([kb \in KeyBytesSet |-> SignYesLong], TRUE, TRUE),
     Callbacks([kb \in KeyBytesSet |-> SignYes(kb)], FALSE, FALSE),
     Callbacks([kb \in KeyBytesSet |-> SignDefault], TRUE, TRUE),
     Callbacks([kb \in KeyBytesSet |-> SignYesEmpty], TRUE, TRUE),
     Callbacks([kb \in KeyBytesSet |-> SignMaybe], TRUE, TRUE),
     Callbacks([kb \in KeyBytesSet |-> SignMaybeSig(kb)], TRUE, TRUE),
     Callbacks([kb \in KeyBytesSet |->
                    IF kb \in {<<10>>, <<12>>} THEN SignYes(kb) ELSE SignDefault],
               TRUE, TRUE),
     Callbacks([kb \in KeyBytesSet |-> IF kb = <<11>> THEN SignYes(kb) ELSE SignDefault],
               TRUE, TRUE),
     Callbacks([kb \in KeyBytesSet |-> IF kb = <<10>> THEN SignMaybe ELSE SignYes(kb)],
               TRUE, FALSE)}

T_or_d_hex == <<"or_d", "(", "pk", "(", "0", "a", ")", ",", "and_v", "(", "v", ":", "pk",
                "(", "0", "b", ")", ",", "older", "(", "100", ")", ")", ")">>
T_or_i_hex == <<"or_i", "(", "pk", "(", "0", "a", ")", ",", "pk", "(", "0", "b", ")", ")">>

T_multi_hex == <<"multi", "(", "2", ",", "0", "a", ",", "0", "b", ",", "0", "c", ")">>

SatTexts == {T_pk, T_older, T_and_v, T_or_d, T_or_d_hex, T_or_i_hex, T_multi_hex, T_or_b,
             T_and_b}

SatEnvs == [kind : {"text"}, text : SatTexts, script : {<<>>},
            ctx : {MINISCRIPT_CONTEXT_WSH, MINISCRIPT_CONTEXT_TAPSCRIPT}, cb : Providers]

NoResult ==
    SatisfactionResult(MINISCRIPT_AVAILABILITY_NO, TRUE, TRUE, <<>>, <<>>, 0, NullStr)

\* a thread that is not in a miniscript_satisfy call and has not made one;
\* got is the result as miniscript_satisfy returned it, result the struct of
\* the caller, frees the buffers miniscript_satisfaction_result_free has
\* passed to free() so far, nfree its calls and nfreed those with a result
Idle == [pc |-> "idle", h |-> NULL, cb |-> NullCallbacks, nonmalleable |-> FALSE,
         result |-> NoResult, got |-> NoResult, frees |-> <<>>, nfree |-> 0, nfreed |-> 0]

\* the arguments a thread passes to miniscript_satisfy
SatArgs ==
    {[h |-> h, cb |-> env.cb, nonmalleable |-> nm] : h \in Handles, nm \in BOOLEAN}
        \cup {[h |-> h, cb |-> EmptyCallbacks, nonmalleable |-> nm] :
                  h \in Handles, nm \in BOOLEAN}
        \cup {[h |-> h, cb |-> NullCallbacks, nonmalleable |-> FALSE] : h \in Handles}
        \cup {[h |-> NULL, cb |-> env.cb, nonmalleable |-> FALSE]}

\* a thread enters miniscript_satisfy
satisfy_call(t) ==
    /\ thr[t].pc \in {"idle", "done"}
    /\ \E a \in SatArgs :
           thr' = [thr EXCEPT ![t] = [Idle EXCEPT !.pc = "running", !.h = a.h, !.cb = a.cb,
                                                  !.nonmalleable = a.nonmalleable]]
    /\ UNCHANGED <<apivars, descvars, adp>>

\* the thread t has the result r of its call
Returns(t, r) == thr' = [thr EXCEPT ![t].pc = "done", ![t].result = r, ![t].got = r]

\* miniscript_satisfy runs and returns its result to the thread
satisfy_return(t) ==
    /\ thr[t].pc = "running"
    /\ Returns(t, miniscript_satisfy(thr[t].h, thr[t].cb, thr[t].nonmalleable, Plenty))
    /\ fatal' = (fatal \/ Escapes("satisfy") \/ SatisfyAborts(thr[t].h, thr[t].cb))
    /\ UNCHANGED <<oom, env, heap, born, last, descvars, adp>>

\* the most mallocs one copy of a stack makes in the model: stack,
\* stack_sizes and three elements
MaxMallocs == 5

\* miniscript_satisfy runs while memory runs out: Node::Satisfy has what it
\* needs, and of the mallocs of the copy of the stack only the first n
\* return a buffer
satisfy_exhausts(t) ==
    /\ thr[t].pc = "running"
    /\ ~oom
    /\ \E n \in 0..(MaxMallocs - 1) :
           Returns(t, miniscript_satisfy(thr[t].h, thr[t].cb, thr[t].nonmalleable,
                                         UpTo(n)))
    /\ oom' = TRUE
    /\ fatal' = (fatal \/ SatisfyAborts(thr[t].h, thr[t].cb))
    /\ UNCHANGED <<env, heap, born, last, descvars, adp>>

\* the buffers of a result: the array of element pointers, the array of
\* sizes, the message and the elements
Buffer(name, i) == [buf |-> name, i |-> i]

\* the loop of miniscript_satisfaction_result_free over the elements: the
\* free() calls it makes from the i-th element on
RECURSIVE FreeElements(_, _)
FreeElements(result, i) ==
    IF i > result.stack_count THEN <<>>
    ELSE (IF result.stack[i].null THEN <<>> ELSE <<Buffer("stack[i]", i)>>)
             \o FreeElements(result, i + 1)

\* a miniscript_satisfaction_result_free that leaves the pointers as they are
miniscript_satisfaction_result_free_dangling(null, result) ==
    IF null THEN [result |-> result, freed |-> <<>>]
    ELSE [result |-> [result EXCEPT !.stack_count = 0],
          freed |-> (IF result.stack_null THEN <<>>
                     ELSE FreeElements(result, 1) \o <<Buffer("stack", 0)>>)
                    \o (IF result.sizes_null THEN <<>> ELSE <<Buffer("stack_sizes", 0)>>)
                    \o (IF result.error_message = NullStr THEN <<>>
                        ELSE <<Buffer("error_message", 0)>>)]

\* miniscript_satisfaction_result_free(result): the struct it leaves and the
\* buffers it passes to free(), in order; null says that result is null
miniscript_satisfaction_result_free(null, result) ==
    IF null THEN [result |-> result, freed |-> <<>>]
    ELSE [result |-> [result EXCEPT !.stack_null = TRUE, !.stack = <<>>,
                                    !.sizes_null = TRUE, !.stack_sizes = <<>>,
                                    !.error_message = NullStr, !.stack_count = 0],
          freed |-> (IF result.stack_null THEN <<>>
                     ELSE FreeElements(result, 1) \o <<Buffer("stack", 0)>>)
                    \o (IF result.sizes_null THEN <<>> ELSE <<Buffer("stack_sizes", 0)>>)
                    \o (IF result.error_message = NullStr THEN <<>>
                        ELSE <<Buffer("error_message", 0)>>)]

\* a thread calls miniscript_satisfaction_result_free on the result of its
\* call, or on a null pointer
result_free(t) ==
    /\ thr[t].pc = "done"
    /\ thr[t].nfree < MaxFrees
    /\ \E null \in BOOLEAN :
           LET r == miniscript_satisfaction_result_free(null, thr[t].result)
           IN  thr' = [thr EXCEPT ![t].result = r.result,
                                  ![t].frees = @ \o r.freed,
                                  ![t].nfree = @ + 1,
                                  ![t].nfreed = IF null THEN @ ELSE @ + 1]
    /\ UNCHANGED <<apivars, descvars, adp>>


(***************************************************************************)
(* The calls the library makes of the callback adapters during             *)
(* Node::Satisfy, taken one at a time: what the adapter was given, what    *)
(* the provider answered and what the adapter made of it.                  *)
(***************************************************************************)
\* how many of the allocations of one adapter call operator new grants
Memory == {"none", "one", "all"}

\* the memory a call can find: none once memory has run out
Grants == IF oom THEN {"none"} ELSE Memory

\* the record of an adapter call: fn the adapter, set whether the callbacks
\* table and the callback pointer were there, called whether the callback
\* ran, ans its answer (with buf_null and buf for *sig_out / *preimage_out),
\* before and out the content of the output vector before and after the
\* call, thrown whether the call ended in std::bad_alloc
AdapterCall(fn, set, called, ans, before, r, out, thrown) ==
    [fn |-> fn, set |-> set, called |-> called, ans |-> ans, before |-> before,
     avail |-> r.avail, out |-> out, ops |-> r.ops, thrown |-> thrown]

NoAnswer == [avail |-> MINISCRIPT_AVAILABILITY_NO, buf_null |-> TRUE, buf |-> <<>>]

NoAdapterCall ==
    AdapterCall("none", FALSE, FALSE, NoAnswer, <<>>,
                [avail |-> Availability_NO, ops |-> <<>>], <<>>, FALSE)

\* an adapter call that std::bad_alloc ends: nothing is returned, and
\* nothing more is done with the buffer the callback left, if it ran
Thrown(fn, called, ans, before) ==
    AdapterCall(fn, TRUE, called, ans, before,
                [avail |-> Availability_NO, ops |-> <<>>], before, TRUE)

\* CallbackSatisfier::Sign as a whole, with the memory it finds: key_bytes
\* is allocated before the callback runs, the content of sig after it
SignRun(satisfier, key, sig, mem) ==
    LET set == ~satisfier.callbacks.null /\ satisfier.callbacks.sign_callback
        a == SignAnswer(satisfier.callbacks, CS_ToPKBytes(satisfier, key))
        ans == [avail |-> a.avail, buf_null |-> a.sig_null, buf |-> a.sig]
        r == CS_Sign(satisfier, key, sig)
    IN  IF ~set THEN AdapterCall("Sign", FALSE, FALSE, NoAnswer, sig, r, r.sig, FALSE)
        ELSE IF mem = "none" THEN Thrown("Sign", FALSE, NoAnswer, sig)
        ELSE IF mem = "one" /\ r.avail # Availability_NO THEN Thrown("Sign", TRUE, ans, sig)
        ELSE AdapterCall("Sign", TRUE, TRUE, ans, sig, r, r.sig, FALSE)

\* a hash adapter as a whole, with the memory it finds: the only allocation
\* is the content of preimage, after the callback has run
SatHashRun(satisfier, fn, hash, preimage, mem) ==
    LET set == ~satisfier.callbacks.null /\ satisfier.callbacks.hash_callback[fn]
        a == satisfier.callbacks.preimage[fn]
        ans == [avail |-> a.avail, buf_null |-> a.preimage_null, buf |-> a.preimage]
        r == CS_SatHash(satisfier, fn, hash, preimage)
    IN  IF ~set THEN AdapterCall(fn, FALSE, FALSE, NoAnswer, preimage, r, r.preimage, FALSE)
        ELSE IF mem = "none" /\ r.avail = Availability_YES
        THEN Thrown(fn, TRUE, ans, preimage)
        ELSE AdapterCall(fn, TRUE, TRUE, ans, preimage, r, r.preimage, FALSE)

\* the availabilities a callback can return: the three of the enum and one
\* outside it
AvailabilityArgs == {MINISCRIPT_AVAILABILITY_NO, MINISCRIPT_AVAILABILITY_YES,
                     MINISCRIPT_AVAILABILITY_MAYBE, MINISCRIPT_AVAILABILITY_MAYBE + 1}

\* what a callback can leave in its out pointer and length: nothing, a
\* buffer with a length of zero, a buffer with bytes
BufferArgs == {<<>>, <<DummySigByte, 1>>}

SignAnswers == [avail : AvailabilityArgs, sig_null : BOOLEAN, sig : BufferArgs]
PreimageAnswers ==
    [avail : AvailabilityArgs, preimage_null : BOOLEAN, preimage : BufferArgs]

\* the callbacks tables the adapters are tried with
AdapterTables ==
    {NullCallbacks, EmptyCallbacks}
        \cup {Callbacks([kb \in KeyBytesSet |-> a], FALSE, FALSE) : a \in SignAnswers}
        \cup {[EmptyCallbacks EXCEPT !.hash_callback = [fn \in HashCallbacks |-> TRUE],
                                     !.preimage = [fn \in HashCallbacks |-> a]] :
                  a \in PreimageAnswers}

\* the keys Sign is called for, and what the output vector holds before
AdapterKeys == {StringKey(<<"A">>), StringKey(<<"0", "a">>)}
OutBefore == {<<>>, <<7>>}

\* the library calls CallbackSatisfier::Sign
Sign_call ==
    /\ \E cb \in AdapterTables, ctx \in {P2WSH, TAPSCRIPT}, key \in AdapterKeys,
          sig \in OutBefore, mem \in Grants :
           /\ adp' = SignRun(CallbackSatisfier(cb, ctx), key, sig, mem)
           /\ oom' = (oom \/ mem # "all")
    /\ UNCHANGED <<env, heap, born, last, fatal, thr, descvars>>

\* the library calls one of the four hash adapters
SatHash_call(fn) ==
    /\ \E cb \in AdapterTables, preimage \in OutBefore, mem \in Grants :
           /\ adp' = SatHashRun(CallbackSatisfier(cb, P2WSH), fn, <<>>, preimage, mem)
           /\ oom' = (oom \/ mem # "all")
    /\ UNCHANGED <<env, heap, born, last, fatal, thr, descvars>>


(***************************************************************************)
(* stubs.cpp: the chain parameters.                                        *)
(***************************************************************************)
DESCRIPTOR_NETWORK_MAINNET == 0
DESCRIPTOR_NETWORK_TESTNET == 1
DESCRIPTOR_NETWORK_SIGNET == 2
DESCRIPTOR_NETWORK_REGTEST == 3

MainnetChainParams ==
    [bech32_hrp |-> "bc", PUBKEY_ADDRESS |-> 0, SCRIPT_ADDRESS |-> 5,
     EXT_PUBLIC_KEY |-> "xpub"]
TestnetChainParams ==
    [bech32_hrp |-> "tb", PUBKEY_ADDRESS |-> 111, SCRIPT_ADDRESS |-> 196,
     EXT_PUBLIC_KEY |-> "tpub"]
RegtestChainParams ==
    [bech32_hrp |-> "bcrt", PUBKEY_ADDRESS |-> 111, SCRIPT_ADDRESS |-> 196,
     EXT_PUBLIC_KEY |-> "tpub"]

\* Params(): the parameters g_current_params points to
Params == g_current_params

\* a SelectParams whose default case selects the testnet parameters
SelectParams_testnet(network) ==
    CASE network = 0 -> MainnetChainParams
      [] network = 3 -> RegtestChainParams
      [] OTHER -> TestnetChainParams

\* SelectParams: the value it stores in g_current_params
SelectParams(network) ==
    CASE network = 0 -> MainnetChainParams
      [] network \in {1, 2} -> TestnetChainParams
      [] network = 3 -> RegtestChainParams
      [] OTHER -> MainnetChainParams

(***************************************************************************)
(* script/descriptor.h and key_io.h, as far as the wrapper uses them.  A   *)
(* descriptor text is the name of its function and the kind of its key: a  *)
(* hex public key, or an extended key with the xpub or the tpub prefix.    *)
(***************************************************************************)
D_wpkh == [fn |-> "wpkh", key |-> "hex"]
D_pkh == [fn |-> "pkh", key |-> "hex"]
D_wpkh_xpub == [fn |-> "wpkh", key |-> "xpub"]
D_wpkh_tpub == [fn |-> "wpkh", key |-> "tpub"]
D_garbage == [fn |-> "garbage", key |-> "none"]
NoDescriptor == [fn |-> "none", key |-> "none"]

DescriptorStrs == {D_wpkh, D_pkh, D_wpkh_xpub, D_wpkh_tpub, D_garbage}

\* the number of times Parse calls Params() for a descriptor text: none for
\* a hex key; for an extended key once to try it as a WIF secret and once to
\* decode it as an extended public key
ParamReads(desc) == IF desc.key \in {"xpub", "tpub"} THEN 2 ELSE 0

\* Parse, given the parameters its calls of Params() returned
DescriptorParse(desc, seen) ==
    IF desc.fn \notin {"wpkh", "pkh"} THEN FALSE
    ELSE IF desc.key = "hex" THEN TRUE
    ELSE seen[Len(seen)].EXT_PUBLIC_KEY = desc.key

\* EncodeDestination for the output of a descriptor, under given parameters
EncodeDestination(desc, params) ==
    IF desc.fn = "wpkh"
    THEN [null |-> FALSE, encoding |-> "bech32", hrp |-> params.bech32_hrp, prefix |-> 0]
    ELSE [null |-> FALSE, encoding |-> "base58", hrp |-> "", prefix |-> params.PUBKEY_ADDRESS]

NullAddress == [null |-> TRUE, encoding |-> "", hrp |-> "", prefix |-> 0]

(***************************************************************************)
(* descriptor_wrapper.cpp: the descriptor calls of a thread.               *)
(***************************************************************************)
NoThread == 0

\* the DescriptorNode* a thread holds: null, or a node with its descriptor
NullDescriptorNode == [null |-> TRUE, descriptor |-> NoDescriptor]
DescriptorNode(desc) == [null |-> FALSE, descriptor |-> desc]

DescriptorResult(success, msg) == [success |-> success, error_message |-> msg]

DIdle == [pc |-> "idle", fn |-> "none", calls |-> 0, network |-> 0,
          desc |-> NoDescriptor, remaining |-> 0, seen |-> <<>>,
          node |-> NullDescriptorNode, arg |-> NullDescriptorNode,
          result |-> DescriptorResult(FALSE, NullStr), address |-> NullAddress]

\* the values a caller passes as DescriptorNetwork: those of the enum and
\* one outside it
NetworkArgs == {DESCRIPTOR_NETWORK_MAINNET, DESCRIPTOR_NETWORK_TESTNET,
                DESCRIPTOR_NETWORK_SIGNET, DESCRIPTOR_NETWORK_REGTEST,
                DESCRIPTOR_NETWORK_REGTEST + 1}

CanCall(t) == dthr[t].pc = "idle" /\ dthr[t].calls < MaxCalls

\* descriptor_parse_with_network up to the lock: the check of the
\* arguments and *out_node = nullptr
parse_call(t) ==
    /\ CanCall(t)
    /\ \E str_null \in BOOLEAN, desc \in DescriptorStrs, network \in NetworkArgs,
          out_null \in BOOLEAN :
           dthr' = [dthr EXCEPT ![t] =
                IF str_null \/ out_null
                THEN [@ EXCEPT !.fn = "parse", !.calls = @ + 1, !.network = network,
                               !.result = DescriptorResult(FALSE,
                                   strdup_safe("Invalid arguments: null pointer"))]
                ELSE [@ EXCEPT !.pc = "lock", !.fn = "parse", !.calls = @ + 1,
                               !.network = network, !.desc = desc,
                               !.node = NullDescriptorNode, !.seen = <<>>,
                               !.result = DescriptorResult(FALSE, NullStr)]]
    /\ UNCHANGED <<apivars, thr, adp, g_current_params, params_mutex>>

\* the mutant of the lock that does not wait for the mutex
MutexAvailable_unlocked(t) == TRUE

\* std::lock_guard<std::mutex> lock(GetParamsMutex()) can return
MutexAvailable(t) == params_mutex = NoThread

parse_lock(t) ==
    /\ dthr[t].pc = "lock"
    /\ MutexAvailable(t)
    /\ params_mutex' = t
    /\ dthr' = [dthr EXCEPT ![t].pc = "select"]
    /\ UNCHANGED <<apivars, thr, adp, g_current_params>>

\* SelectParams(static_cast<int>(network))
parse_select(t) ==
    /\ dthr[t].pc = "select"
    /\ g_current_params' = SelectParams(dthr[t].network)
    /\ dthr' = [dthr EXCEPT ![t].pc = "parse", ![t].remaining = ParamReads(dthr[t].desc)]
    /\ UNCHANGED <<apivars, thr, adp, params_mutex>>

\* one call of Params() inside Parse
parse_read(t) ==
    /\ dthr[t].pc = "parse"
    /\ dthr[t].remaining > 0
    /\ dthr' = [dthr EXCEPT ![t].remaining = @ - 1, ![t].seen = Append(@, Params)]
    /\ UNCHANGED <<apivars, thr, adp, g_current_params, params_mutex>>

\* the end of Parse, the result, and the release of the lock on return
parse_return(t) ==
    /\ dthr[t].pc = "parse"
    /\ dthr[t].remaining = 0
    /\ dthr' = [dthr EXCEPT ![t] =
            IF oom
            THEN [@ EXCEPT !.pc = "idle", !.desc = NoDescriptor, !.seen = <<>>,
                           !.result = DescriptorResult(FALSE, strdup_safe("std::bad_alloc"))]
            ELSE IF ~DescriptorParse(dthr[t].desc, dthr[t].seen)
            THEN [@ EXCEPT !.pc = "idle", !.desc = NoDescriptor, !.seen = <<>>,
                           !.result = DescriptorResult(FALSE,
                               strdup_safe("Failed to parse descriptor"))]
            ELSE [@ EXCEPT !.pc = "idle", !.desc = NoDescriptor, !.seen = <<>>,
                           !.node = DescriptorNode(dthr[t].desc),
                           !.result = DescriptorResult(TRUE, NullStr)]]
    /\ params_mutex' = IF params_mutex = t THEN NoThread ELSE params_mutex
    /\ UNCHANGED <<apivars, thr, adp, g_current_params>>

\* descriptor_select_params
select_params(t) ==
    /\ CanCall(t)
    /\ \E network \in NetworkArgs :
           /\ g_current_params' = SelectParams(network)
           /\ dthr' = [dthr EXCEPT ![t].fn = "select", ![t].calls = @ + 1,
                                   ![t].network = network]
    /\ UNCHANGED <<apivars, thr, adp, params_mutex>>

\* a thread enters descriptor_get_address with its node or with null
get_address_call(t) ==
    /\ CanCall(t)
    /\ \E node \in {dthr[t].node, NullDescriptorNode}, network \in NetworkArgs :
           dthr' = [dthr EXCEPT ![t].pc = "encode", ![t].fn = "get_address",
                                ![t].calls = @ + 1, ![t].network = network,
                                ![t].arg = node, ![t].address = NullAddress]
    /\ UNCHANGED <<apivars, thr, adp, g_current_params, params_mutex>>

\* descriptor_get_address(node, pos, network): what it returns
descriptor_get_address(node, network) ==
    IF node.null THEN NullAddress
    ELSE IF oom THEN NullAddress
    ELSE EncodeDestination(node.descriptor, Params)

get_address_return(t) ==
    /\ dthr[t].pc = "encode"
    /\ dthr' = [dthr EXCEPT ![t].pc = "idle", ![t].arg = NullDescriptorNode,
                            ![t].address = descriptor_get_address(dthr[t].arg,
                                                                  dthr[t].network)]
    /\ UNCHANGED <<apivars, thr, adp, g_current_params, params_mutex>>


(***************************************************************************)
(* The specifications.                                                     *)
(***************************************************************************)
Threads == {1, 2}

Init ==
    /\ oom = FALSE
    /\ env \in Envs
    /\ heap = <<>>
    /\ born = <<>>
    /\ last = NoCall
    /\ thr = [t \in Threads |-> Idle]
    /\ g_current_params = TestnetChainParams
    /\ params_mutex = NoThread
    /\ dthr = [t \in Threads |-> DIdle]
    /\ fatal = FALSE
    /\ adp = NoAdapterCall

Next ==
    \/ from_string_call
    \/ from_script_call
    \/ to_string_call
    \/ to_script_call
    \/ is_valid_call
    \/ is_valid_top_level_call
    \/ is_non_malleable_call
    \/ needs_signature_call
    \/ has_timelock_mix_call
    \/ get_type_call
    \/ get_script_size_call
    \/ is_sane_call
    \/ check_duplicate_key_call
    \/ max_satisfaction_size_call
    \/ get_stack_size_call
    \/ find_insane_sub_call

vars == <<oom, env, heap, born, last, thr, g_current_params, params_mutex, dthr,
          fatal, adp>>

\* the parse / serialize / query interface, from a text or a script
Spec == Init /\ [][Next]_vars

\* what the parse call that returned r has left behind
Parsed(r) ==
    /\ heap = IF r.created THEN <<r.obj>> ELSE <<>>
    /\ born = IF r.created
              THEN <<Birth("from_string", env.ctx, NULL, env.text, <<>>, r.obj)>>
              ELSE <<>>
    /\ last = [NoCall EXCEPT !.fn = "from_string", !.ctx = env.ctx,
                             !.success = r.success,
                             !.error_message = r.error_message,
                             !.out_node = r.out_node]

\* the state after the caller has parsed env.text in the context env.ctx
SatInit ==
    /\ oom = FALSE
    /\ env \in SatEnvs
    /\ Parsed(miniscript_from_string(FALSE, env.text, env.ctx, FALSE, NULL, 1))
    /\ thr = [t \in Threads |-> Idle]
    /\ g_current_params = TestnetChainParams
    /\ params_mutex = NoThread
    /\ dthr = [t \in Threads |-> DIdle]
    /\ fatal = FALSE
    /\ adp = NoAdapterCall

SatNext ==
    \/ \E t \in Threads : satisfy_call(t)
    \/ \E t \in Threads : satisfy_return(t)
    \/ to_string_call
    \/ get_type_call
    \/ is_valid_call

\* two threads that call miniscript_satisfy on a parsed tree, and queries
SatSpec == SatInit /\ [][SatNext]_vars

\* memory runs out: from now on no allocation succeeds
exhaust_memory ==
    /\ ~oom
    /\ oom' = TRUE
    /\ UNCHANGED <<env, heap, born, last, fatal, thr, descvars, adp>>

FaultNext ==
    \/ \E t \in Threads : satisfy_call(t)
    \/ \E t \in Threads : satisfy_return(t)
    \/ to_string_call
    \/ exhaust_memory

\* satisfactions and serializations in a process whose memory may run out
FaultSpec == SatInit /\ [][FaultNext]_vars

\* texts with two timelocks: on one path or in the arms of an or, of the
\* same or of different kinds (relative, absolute) and units (height, time)
M_and_rel == <<"and_v", "(", "v", ":", "older", "(", "10", ")", ",", "older", "(",
               "4194305", ")", ")">>
M_and_abs == <<"and_v", "(", "v", ":", "after", "(", "500000", ")", ",", "after", "(",
               "500000000", ")", ")">>
M_and_cross == <<"and_v", "(", "v", ":", "older", "(", "10", ")", ",", "after", "(",
                 "500000000", ")", ")">>
M_and_heights == <<"and_v", "(", "v", ":", "older", "(", "10", ")", ",", "after", "(",
                   "500000", ")", ")">>
M_or_rel == <<"or_i", "(", "older", "(", "10", ")", ",", "older", "(", "4194305", ")", ")">>
M_or_b_rel == <<"or_b", "(", "l", ":", "older", "(", "10", ")", ",", "a", "l", ":",
                "older", "(", "4194305", ")", ")">>
M_and_b_rel == <<"and_b", "(", "l", ":", "older", "(", "4194305", ")", ",", "a", "l", ":",
                 "older", "(", "10", ")", ")">>
M_and_or == <<"and_v", "(", "or_i", "(", "v", ":", "older", "(", "10", ")", ",", "v", ":",
              "older", "(", "4194305", ")", ")", ",", "older", "(", "10", ")", ")">>
M_or_and == <<"or_i", "(", "and_v", "(", "v", ":", "older", "(", "10", ")", ",", "older",
              "(", "4194305", ")", ")", ",", "older", "(", "10", ")", ")">>

MixTexts == {M_and_rel, M_and_abs, M_and_cross, M_and_heights, M_or_rel, M_or_b_rel,
             M_and_b_rel, M_and_or, M_or_and, T_or_b, T_and_v, T_pk}

MixInit ==
    /\ oom = FALSE
    /\ env \in [kind : {"text"}, text : MixTexts, script : {<<>>}]
    /\ heap = <<>>
    /\ born = <<>>
    /\ last = NoCall
    /\ thr = [t \in Threads |-> Idle]
    /\ g_current_params = TestnetChainParams
    /\ params_mutex = NoThread
    /\ dthr = [t \in Threads |-> DIdle]
    /\ fatal = FALSE
    /\ adp = NoAdapterCall

MixNext ==
    \/ from_string_call
    \/ has_timelock_mix_call
    \/ is_sane_call

\* parse calls on texts with timelocks, and the two queries about them
MixSpec == MixInit /\ [][MixNext]_vars

\* the trees and providers whose results are copied and freed: one, two and
\* three stack elements, with and without an empty one
ResultEnvs == [kind : {"text"}, text : {T_pk, T_or_d_hex, T_multi_hex}, script : {<<>>},
               ctx : {MINISCRIPT_CONTEXT_WSH, MINISCRIPT_CONTEXT_TAPSCRIPT},
               cb : {Callbacks([kb \in KeyBytesSet |-> SignYes(kb)], TRUE, TRUE),
                     Callbacks([kb \in KeyBytesSet |->
                                    IF kb = <<11>> THEN SignYes(kb) ELSE SignDefault],
                               TRUE, TRUE)}]

ResultInit ==
    /\ oom = FALSE
    /\ env \in ResultEnvs
    /\ Parsed(miniscript_from_string(FALSE, env.text, env.ctx, FALSE, NULL, 1))
    /\ thr = [t \in Threads |-> Idle]
    /\ g_current_params = TestnetChainParams
    /\ params_mutex = NoThread
    /\ dthr = [t \in Threads |-> DIdle]
    /\ fatal = FALSE
    /\ adp = NoAdapterCall

ResultNext ==
    \/ \E t \in Threads : satisfy_call(t)
    \/ \E t \in Threads : satisfy_return(t)
    \/ \E t \in Threads : satisfy_exhausts(t)
    \/ \E t \in Threads : result_free(t)

\* miniscript_satisfy calls, with memory that may run out during the copy of
\* the stack, and miniscript_satisfaction_result_free calls on their results
ResultSpec == ResultInit /\ [][ResultNext]_vars

\* the state before the library has called any adapter
AdapterInit ==
    /\ oom = FALSE
    /\ env = [kind |-> "adapter", text |-> <<>>, script |-> <<>>]
    /\ heap = <<>>
    /\ born = <<>>
    /\ last = NoCall
    /\ thr = [t \in Threads |-> Idle]
    /\ g_current_params = TestnetChainParams
    /\ params_mutex = NoThread
    /\ dthr = [t \in Threads |-> DIdle]
    /\ fatal = FALSE
    /\ adp = NoAdapterCall

AdapterNext ==
    \/ Sign_call
    \/ \E fn \in HashCallbacks : SatHash_call(fn)

\* calls of the callback adapters, in a process whose memory may run out
AdapterSpec == AdapterInit /\ [][AdapterNext]_vars

\* the state after the process has started, before any descriptor call
NetInit ==
    /\ oom = FALSE
    /\ env = [kind |-> "descriptor", text |-> <<>>, script |-> <<>>]
    /\ heap = <<>>
    /\ born = <<>>
    /\ last = NoCall
    /\ thr = [t \in Threads |-> Idle]
    /\ g_current_params = TestnetChainParams
    /\ params_mutex = NoThread
    /\ dthr = [t \in Threads |-> DIdle]
    /\ fatal = FALSE
    /\ adp = NoAdapterCall

ParseNetNext ==
    \/ \E t \in Threads : parse_call(t)
    \/ \E t \in Threads : parse_lock(t)
    \/ \E t \in Threads : parse_select(t)
    \/ \E t \in Threads : parse_read(t)
    \/ \E t \in Threads : parse_return(t)

\* threads that call descriptor_parse_with_network and nothing else
ParseNetSpec == NetInit /\ [][ParseNetNext]_vars

NetNext ==
    \/ ParseNetNext
    \/ \E t \in Threads : select_params(t)
    \/ \E t \in Threads : get_address_call(t)
    \/ \E t \in Threads : get_address_return(t)

\* threads that call any of the descriptor functions
NetSpec == NetInit /\ [][NetNext]_vars


(***************************************************************************)
(* Properties of the parse / serialize interface (specification Spec).     *)
(***************************************************************************)
ParseFns == {"from_string", "from_script"}

\* C1: whenever miniscript_from_string or miniscript_from_script reports
\* success, *out_node holds a handle of a tree for which miniscript_is_valid
\* is true.
C1_SuccessGivesValidTree ==
    (last.fn \in ParseFns /\ last.success)
        => /\ last.out_node \in Handles
           /\ miniscript_is_valid(last.out_node)

\* a parse call has just succeeded and handed out a handle
C1_Witness ==
    /\ last.fn \in ParseFns
    /\ last.success
    /\ last.out_node \in Handles
    /\ born[last.out_node].src = NULL

\* C2: whenever a parse call fails, success is false, error_message is not
\* null and, if out_node was not null, *out_node is null after the call.
C2_FailureLeavesNull ==
    (last.fn \in ParseFns /\ ~last.success)
        => /\ last.error_message # NullStr
           /\ ~last.out_null => last.out_node = NULL

\* C3: parsing the script miniscript_to_script returned for a tree, in the
\* context of that tree, succeeds and gives a tree equal to it, keys included.
C3_ScriptRoundTrip ==
    (/\ last.fn = "from_script"
     /\ last.src # NULL
     /\ ~last.out_null
     /\ MsContextOf(last.ctx) = heap[last.src].ctx)
        => /\ last.success
           /\ last.out_node \in Handles
           /\ heap[last.out_node].node = heap[last.src].node

\* C4: for a tree that miniscript_from_script made from a script b,
\* miniscript_to_script returns exactly b.
C4_ScriptReserialize ==
    (/\ last.fn = "to_script"
     /\ last.h # NULL
     /\ ~last.out_null
     /\ born[last.h].fn = "from_script")
        => /\ last.ok
           /\ last.script = born[last.h].script

\* C5: miniscript_to_string of a tree returns a text, and parsing that text
\* in the context of the tree succeeds and gives a structurally equal tree.
C5_StringRoundTrip ==
    /\ (last.fn = "to_string" /\ last.h # NULL) => ~last.ret_null
    /\ (/\ last.fn = "from_string"
        /\ last.src # NULL
        /\ ~last.out_null
        /\ MsContextOf(last.ctx) = heap[last.src].ctx)
           => /\ last.success
              /\ last.out_node \in Handles
              /\ heap[last.out_node].node = heap[last.src].node

\* a text that miniscript_to_string printed with pk(...) for a tree that has
\* a key has been parsed again, in the context of the tree
C5_Witness ==
    /\ last.fn = "from_string"
    /\ last.src # NULL
    /\ last.success
    /\ MsContextOf(last.ctx) = heap[last.src].ctx
    /\ born[last.src].fn = "from_string"
    /\ born[last.src].text = T_c_pk_k



(***************************************************************************)
(* Properties of miniscript_satisfy (specification SatSpec).               *)
(***************************************************************************)
Returned(t) == thr[t].pc = "done"

\* C6: a result of miniscript_satisfy has a non-empty stack only when its
\* availability is YES, and no returned stack holds the placeholder
\* signature that stands in for a MAYBE answer of the sign callback.
C6_StackOnlyWhenYes ==
    \A t \in Threads :
        Returned(t) =>
            /\ thr[t].result.stack_count > 0
                   => thr[t].result.availability = MINISCRIPT_AVAILABILITY_YES
            /\ \A i \in 1..Len(thr[t].result.stack) :
                   thr[t].result.stack[i].bytes # Rep(DummySigLen, DummySigByte)

\* the satisfaction the library computes for the root of the tree of a call
RootSat(t) ==
    ProduceInput(heap[thr[t].h].node,
                 CallbackSatisfier(thr[t].cb, heap[thr[t].h].ctx)).sat

\* the call of t was given a tree and callbacks
Ran(t) == Returned(t) /\ thr[t].h # NULL /\ ~thr[t].cb.null

\* the root has no available candidate
Unsatisfiable(t) == Ran(t) /\ RootSat(t).available = Availability_NO

\* the root has a candidate, and nonmalleable = true rules it out
MalleableOnly(t) ==
    /\ Ran(t)
    /\ thr[t].nonmalleable
    /\ RootSat(t).available # Availability_NO
    /\ RootSat(t).malleable \/ ~RootSat(t).has_sig

\* C7: the result miniscript_satisfy returns when the root has no available
\* candidate differs from the one it returns when nonmalleable = true rules
\* out the only available candidate.
C7_FailuresDiffer ==
    \A t, u \in Threads :
        (Unsatisfiable(t) /\ MalleableOnly(u)) => thr[t].result # thr[u].result

\* the context of every node of a tree
RECURSIVE AllInContext(_, _)
AllInContext(n, ms_ctx) ==
    /\ n.m_script_ctx = ms_ctx
    /\ \A i \in 1..Len(n.subs) : AllInContext(n.subs[i], ms_ctx)

C8_ParseSeesOwnParams ==
    \A t \in Threads :
        dthr[t].pc = "parse" =>
            /\ Params = SelectParams(dthr[t].network)
            /\ \A i \in 1..Len(dthr[t].seen) :
                   dthr[t].seen[i] = SelectParams(dthr[t].network)

\* a call has read the parameters inside its Parse while a call for a
\* network with other parameters is waiting for the lock
C8_Witness ==
    \E t, u \in Threads :
        /\ dthr[t].pc = "parse"
        /\ Len(dthr[t].seen) > 0
        /\ dthr[u].pc = "lock"
        /\ SelectParams(dthr[u].network) # SelectParams(dthr[t].network)

\* C9: an address descriptor_get_address returns is the one encoded with
\* the parameters of its network argument, whatever was selected before.
C9_AddressForNetworkArgument ==
    \A t \in Threads :
        (/\ dthr[t].fn = "get_address"
         /\ dthr[t].pc = "idle"
         /\ ~dthr[t].address.null)
            => dthr[t].address =
                   EncodeDestination(dthr[t].node.descriptor,
                                     SelectParams(dthr[t].network))


KeyWidth(ms_ctx) == IF IsTapscript(ms_ctx) THEN PKBytesTap ELSE PKBytesWsh

\* C12: every key is serialized to the fixed width of the context of its
\* tree, 33 bytes for WSH and 32 for Tapscript, both in the compiled script
\* and in the key bytes handed to the provider's sign callback.
C12_KeysFixedWidth ==
    /\ \A h \in Handles : \A key \in NodeKeys(heap[h].node) :
           Len(SKC_ToPKBytes(heap[h].ctx, key)) = KeyWidth(heap[h].ctx)
    /\ \A t \in Threads :
           Ran(t) =>
               \A kb \in SignCalls(heap[thr[t].h].node,
                                   CallbackSatisfier(thr[t].cb, heap[thr[t].h].ctx)) :
                   Len(kb) = KeyWidth(heap[thr[t].h].ctx)


(***************************************************************************)
(* Properties of the sanity queries (specifications Spec and MixSpec).     *)
(***************************************************************************)
\* C13: for every handle and for the null handle, if miniscript_is_sane is
\* true then miniscript_is_valid, miniscript_is_non_malleable and
\* miniscript_check_duplicate_key are true and miniscript_has_timelock_mix is
\* false.
C13_SaneImplies ==
    \A h \in Handles \cup {NULL} :
        miniscript_is_sane(h) =>
            /\ miniscript_is_valid(h)
            /\ miniscript_is_non_malleable(h)
            /\ miniscript_check_duplicate_key(h)
            /\ ~miniscript_has_timelock_mix(h)

\* miniscript_is_sane returned true for a tree with a timelock, and false
\* for another tree
C13_Witness ==
    /\ last.fn = "is_sane" /\ last.h # NULL /\ last.ok
    /\ heap[last.h].node.typ \cap TimelockBits # {}
    /\ \E h \in Handles : ~miniscript_is_sane(h) /\ miniscript_is_valid(h)


\* the tree n holds the timelock fragment with the number k
RECURSIVE HasTimelock(_, _, _)
HasTimelock(n, fragment, k) ==
    \/ n.fragment = fragment /\ n.k = k
    \/ \E i \in 1..Len(n.subs) : HasTimelock(n.subs[i], fragment, k)

\* an or_b with older(10) on its first branch and after(500000) on its second
OrBOfOlderAndAfter(n) ==
    /\ n.fragment = "OR_B"
    /\ HasTimelock(n.subs[1], "OLDER", 10)
    /\ HasTimelock(n.subs[2], "AFTER", 500000)

TimelockOf(n) ==
    IF n.fragment = "OLDER"
    THEN [kind |-> "relative",
          unit |-> IF (n.k \div 4194304) % 2 = 1 THEN "time" ELSE "height"]
    ELSE [kind |-> "absolute",
          unit |-> IF n.k >= 500000000 THEN "time" ELSE "height"]

\* the pairwise unions of the paths of two children that are both needed
BothPaths(ps, qs) == {p \cup q : p \in ps, q \in qs}

\* the spending paths of a tree, each as the set of timelocks on it: an AND
\* needs a path of each child, an OR a path of one of them
RECURSIVE Paths(_)
Paths(n) ==
    CASE n.fragment \in {"OLDER", "AFTER"} -> {{TimelockOf(n)}}
      [] n.fragment \in {"AND_V", "AND_B"} ->
            BothPaths(Paths(n.subs[1]), Paths(n.subs[2]))
      [] n.fragment \in {"OR_B", "OR_D", "OR_I"} ->
            Paths(n.subs[1]) \cup Paths(n.subs[2])
      [] Len(n.subs) = 1 -> Paths(n.subs[1])
      [] OTHER -> {{}}

\* some path holds two timelocks of different units
MixOfUnits(n) ==
    \E p \in Paths(n) : \E a, b \in p : a.unit # b.unit

\* some path holds two timelocks of the same kind and of different units
MixOfUnitsOfOneKind(n) ==
    \E p \in Paths(n) : \E a, b \in p : a.kind = b.kind /\ a.unit # b.unit

C15_WitnessMix ==
    /\ last.fn = "has_timelock_mix" /\ last.h # NULL /\ last.ok
    /\ miniscript_is_valid(last.h)
    /\ MixOfUnitsOfOneKind(heap[last.h].node)


(***************************************************************************)
(* The concrete satisfactions (specification SatSpec).                     *)
(***************************************************************************)
\* what the sign callback of the call of t answers for the key
AnswerFor(t, key) ==
    SignAnswer(thr[t].cb,
               CS_ToPKBytes(CallbackSatisfier(thr[t].cb, heap[thr[t].h].ctx), key))

\* the provider of the call of t can sign for the key: YES and a signature
CanSign(t, key) ==
    /\ thr[t].cb.sign_callback
    /\ AnswerFor(t, key).avail = MINISCRIPT_AVAILABILITY_YES
    /\ ~AnswerFor(t, key).sig_null
    /\ AnswerFor(t, key).sig # <<>>

\* the provider of the call of t answers NO for the key
CannotSign(t, key) ==
    thr[t].cb.sign_callback /\ AnswerFor(t, key).avail = MINISCRIPT_AVAILABILITY_NO

\* the tree is pk(key)
IsPk(n) == n.fragment = "WRAP_C" /\ n.subs[1].fragment = "PK_K"

\* the tree is or_d(pk(A),and_v(v:pk(B),older(100)))
IsOrDScenario(n) ==
    /\ n.fragment = "OR_D"
    /\ IsPk(n.subs[1])
    /\ n.subs[2].fragment = "AND_V"
    /\ n.subs[2].subs[1].fragment = "WRAP_V"
    /\ IsPk(n.subs[2].subs[1].subs[1])
    /\ n.subs[2].subs[2].fragment = "OLDER"
    /\ n.subs[2].subs[2].k = 100

\* the call of t is the one of the scenario: the provider signs for B, not
\* for A, and check_older is true; nonmalleable = true
OrDCall(t) ==
    /\ Ran(t)
    /\ IsOrDScenario(heap[thr[t].h].node)
    /\ CannotSign(t, heap[thr[t].h].node.subs[1].subs[1].keys[1])
    /\ CanSign(t, heap[thr[t].h].node.subs[2].subs[1].subs[1].subs[1].keys[1])
    /\ thr[t].cb.check_older_callback /\ thr[t].cb.older
    /\ thr[t].nonmalleable

\* C16: for or_d(pk(A),and_v(v:pk(B),older(100))) with a provider that signs
\* for B and not for A and whose check_older is true, miniscript_satisfy with
\* nonmalleable = true returns YES and the stack [sig_B, <empty>].
C16_OrDSecondBranch ==
    \A t \in Threads :
        OrDCall(t) =>
            /\ thr[t].result.availability = MINISCRIPT_AVAILABILITY_YES
            /\ thr[t].result.stack_count = 2
            /\ thr[t].result.stack[1].bytes
                   = AnswerFor(t, heap[thr[t].h].node.subs[2].subs[1].subs[1].subs[1]
                                      .keys[1]).sig
            /\ thr[t].result.stack[2].null
            /\ thr[t].result.stack_sizes[2] = 0
            /\ thr[t].result.error_message = NullStr

\* a call of the scenario has returned
C16_Witness == \E t \in Threads : OrDCall(t)


\* the call of t is on multi(2,A,B,C) with a provider that signs for A and
\* for C and not for B
MultiCall(t) ==
    /\ Ran(t)
    /\ heap[thr[t].h].node.fragment = "MULTI"
    /\ heap[thr[t].h].node.k = 2
    /\ Len(heap[thr[t].h].node.keys) = 3
    /\ CanSign(t, heap[thr[t].h].node.keys[1])
    /\ CannotSign(t, heap[thr[t].h].node.keys[2])
    /\ CanSign(t, heap[thr[t].h].node.keys[3])

\* C17: for multi(2,A,B,C) with a provider that signs for A and C only,
\* miniscript_satisfy returns YES and the stack [<empty>, sig_A, sig_C]: the
\* leading empty element, then the signatures in the order of the keys, and
\* none for B.
C17_MultiTwoOfThree ==
    \A t \in Threads :
        MultiCall(t) =>
            /\ thr[t].result.availability = MINISCRIPT_AVAILABILITY_YES
            /\ thr[t].result.stack_count = 3
            /\ thr[t].result.stack[1].null /\ thr[t].result.stack_sizes[1] = 0
            /\ thr[t].result.stack[2].bytes
                   = AnswerFor(t, heap[thr[t].h].node.keys[1]).sig
            /\ thr[t].result.stack[3].bytes
                   = AnswerFor(t, heap[thr[t].h].node.keys[3]).sig
            /\ thr[t].result.stack[2].bytes # thr[t].result.stack[3].bytes

\* a call of the scenario has returned
C17_Witness == \E t \in Threads : MultiCall(t) /\ thr[t].nonmalleable


\* the call of t is on pk(A) with a provider that signs for A
PkCall(t) ==
    /\ Ran(t)
    /\ IsPk(heap[thr[t].h].node)
    /\ CanSign(t, heap[thr[t].h].node.subs[1].keys[1])

\* C18: for pk(A) with a provider that answers YES with a non-empty
\* signature sig_A, miniscript_satisfy returns YES, stack_count = 1, the one
\* element equal to sig_A, and a null error_message.
C18_PkOneSignature ==
    \A t \in Threads :
        PkCall(t) =>
            /\ thr[t].result.availability = MINISCRIPT_AVAILABILITY_YES
            /\ thr[t].result.stack_count = 1
            /\ ~thr[t].result.stack_null
            /\ ~thr[t].result.stack[1].null
            /\ thr[t].result.stack[1].bytes
                   = AnswerFor(t, heap[thr[t].h].node.subs[1].keys[1]).sig
            /\ thr[t].result.stack_sizes[1]
                   = Len(AnswerFor(t, heap[thr[t].h].node.subs[1].keys[1]).sig)
            /\ thr[t].result.error_message = NullStr

\* both threads have made the call, one of them with nonmalleable = true
C18_Witness ==
    /\ PkCall(1) /\ PkCall(2)
    /\ thr[1].nonmalleable /\ ~thr[2].nonmalleable


(***************************************************************************)
(* Properties of the resource bounds (specification SatSpec).              *)
(***************************************************************************)
\* the call of t returned a witness: availability YES for a valid tree
GotWitness(t) ==
    /\ Ran(t)
    /\ miniscript_is_valid(thr[t].h)
    /\ thr[t].result.availability = MINISCRIPT_AVAILABILITY_YES

\* the number of elements of the witness is within miniscript_get_stack_size
WithinStackSize(t) ==
    /\ miniscript_get_stack_size(thr[t].h, FALSE).ok
    /\ thr[t].result.stack_count <= miniscript_get_stack_size(thr[t].h, FALSE).size

\* the bytes of the elements of the witness, without their length bytes, are
\* within miniscript_max_satisfaction_size
WithinSatisfactionSize(t) ==
    /\ miniscript_max_satisfaction_size(thr[t].h, FALSE).ok
    /\ SeqSum(thr[t].result.stack_sizes)
           <= miniscript_max_satisfaction_size(thr[t].h, FALSE).size

\* C19: if miniscript_satisfy returns YES for a valid tree then stack_count
\* does not exceed miniscript_get_stack_size and the total size of the
\* witness does not exceed miniscript_max_satisfaction_size, for every
\* provider.
C19_BoundsHold ==
    \A t \in Threads :
        GotWitness(t) => WithinStackSize(t) /\ WithinSatisfactionSize(t)

\* the part of C19 about the number of elements
C19_StackCountBounded ==
    \A t \in Threads : GotWitness(t) => WithinStackSize(t)

\* the part of C19 about the size, for providers whose signatures are not
\* longer than the library counts with
C19_SizeBoundedForShortSignatures ==
    \A t \in Threads :
        (/\ GotWitness(t)
         /\ \A kb \in DOMAIN thr[t].cb.sign :
                Len(thr[t].cb.sign[kb].sig) + 1 <= SigSize(heap[thr[t].h].ctx))
            => WithinSatisfactionSize(t)


(***************************************************************************)
(* Properties of miniscript_find_insane_sub (specification Spec).          *)
(***************************************************************************)
\* C20: miniscript_find_insane_sub returns null if and only if the tree has
\* no insane sub-expression, and otherwise a handle for the first one.
C20_FindsInsaneSub ==
    (last.fn = "find_insane_sub" /\ last.h # NULL) =>
        /\ last.ret_null <=> FindInsaneSub(heap[last.h].node).fragment = "NONE"
        /\ ~last.ret_null =>
               /\ last.out_node \in Handles
               /\ heap[last.out_node].node = FindInsaneSub(heap[last.h].node)


(***************************************************************************)
(* Properties of the callback adapters (specification AdapterSpec).        *)
(***************************************************************************)
\* the provider handed back a signature or preimage: a buffer that is not
\* null with a length that is not zero
Supplied(a) == a.set /\ ~a.ans.buf_null /\ a.ans.buf # <<>>

NetworkParams(n) ==
    IF n = 0 THEN MainnetChainParams
    ELSE IF n = 1 \/ n = 2 THEN TestnetChainParams
    ELSE IF n = 3 THEN RegtestChainParams
    ELSE MainnetChainParams

\* in this step thread t runs SelectParams: as descriptor_select_params, or
\* inside descriptor_parse_with_network once it holds the lock
Selects(t) ==
    \/ dthr'[t].fn = "select" /\ dthr'[t].calls = dthr[t].calls + 1
    \/ dthr[t].pc = "select" /\ dthr'[t].pc = "parse"

\* in this step a descriptor_parse_with_network call of thread t returns: at
\* the check of its arguments, or after Parse
ParseReturns(t) ==
    /\ dthr'[t].fn = "parse" /\ dthr'[t].pc = "idle"
    /\ \/ dthr[t].pc = "parse"
       \/ dthr[t].pc = "idle" /\ dthr'[t].calls = dthr[t].calls + 1

\* no thread but t has made a descriptor call
Alone(t) == \A u \in Threads \ {t} : dthr[u].calls = 0 /\ dthr'[u].calls = 0

\* C22 as claimed: in a process where no other thread makes descriptor
\* calls, every descriptor_parse_with_network call leaves the parameters of
\* its own network selected when it returns, whether it succeeded or failed.
C22_ParseLeavesOwnNetwork ==
    [][\A t \in Threads :
           (ParseReturns(t) /\ Alone(t)) =>
               g_current_params' = NetworkParams(dthr'[t].network)]_vars

\* C22: the selected chain parameters are a function of the most recent
\* selection only: testnet at the start; every SelectParams(n), made by
\* descriptor_select_params or by a descriptor_parse_with_network call that
\* has passed the check of its arguments, selects mainnet for n = 0, testnet
\* for n = 1 and n = 2, regtest for n = 3 and mainnet for any other n; no
\* other step changes the selection: a descriptor_parse_with_network call
\* does not restore the previous selection when it returns, whether it
\* succeeded or failed, and selects nothing when it fails the check of its
\* arguments.
C22_MostRecentSelection ==
    /\ g_current_params = TestnetChainParams
    /\ [][/\ \A t \in Threads :
                 Selects(t) => g_current_params' = NetworkParams(dthr'[t].network)
          /\ (\A t \in Threads : ~Selects(t)) => g_current_params' = g_current_params
          /\ \A t \in Threads :
                 (ParseReturns(t) /\ dthr[t].pc = "parse" /\ Alone(t)) =>
                     g_current_params' = NetworkParams(dthr'[t].network)]_vars

\* a descriptor_parse_with_network call for regtest has failed in Parse and
\* has returned, no other thread has made a call, and the regtest
\* parameters are still selected
C22_Witness ==
    \E t \in Threads :
        /\ dthr[t].fn = "parse" /\ dthr[t].pc = "idle"
        /\ dthr[t].network = DESCRIPTOR_NETWORK_REGTEST
        /\ ~dthr[t].result.success
        /\ dthr[t].result.error_message = "Failed to parse descriptor"
        /\ \A u \in Threads \ {t} : dthr[u].calls = 0
        /\ g_current_params = RegtestChainParams


\* in this step thread t reads the chain parameters: Parse calls Params(),
\* or descriptor_get_address encodes an address
ReadsParams(t) ==
    \/ dthr[t].pc = "parse" /\ Len(dthr'[t].seen) = Len(dthr[t].seen) + 1
    \/ dthr[t].pc = "encode" /\ dthr'[t].pc = "idle" /\ ~dthr'[t].address.null

\* C23: every write and every read of the global chain parameters happens
\* while the thread that makes it holds the params mutex, and so no thread
\* changes the selected network while another thread is inside its parse.
C23_AccessUnderMutex ==
    [][/\ \A t \in Threads : (Selects(t) \/ ReadsParams(t)) => params_mutex = t
       /\ \A t \in Threads :
              (dthr[t].pc = "parse" /\ dthr'[t].pc = "parse") =>
                  g_current_params' = g_current_params]_vars

\* the part of C23 that holds: descriptor_parse_with_network itself selects
\* and reads only while it holds the mutex
C23_ParseHoldsMutex ==
    \A t \in Threads : dthr[t].pc \in {"select", "parse"} => params_mutex = t


(***************************************************************************)
(* Properties of the identity of keys (specification SatSpec).             *)
(***************************************************************************)
\* the call of t ran Node::Satisfy with a sign callback
Signed(t) == Ran(t) /\ ~NullNode(thr[t].h) /\ thr[t].cb.sign_callback

\* the key bytes the sign callback of the call of t receives for key
SignBytes(t, key) ==
    CS_ToPKBytes(CallbackSatisfier(thr[t].cb, heap[thr[t].h].ctx), key)

\* the data pushes of the script miniscript_to_script returns for a handle
ScriptPushes(h) ==
    LET script == miniscript_to_script(h, FALSE).script
    IN  {script[i].data : i \in {j \in 1..Len(script) : script[j].op = "PUSH"}}

\* two distinct keys of a tree are handed to the sign callback as distinct
\* byte strings
DistinctKeysDistinctBytes(t) ==
    \A k1, k2 \in NodeKeys(heap[thr[t].h].node) :
        k1 # k2 => SignBytes(t, k1) # SignBytes(t, k2)

\* the bytes handed to the sign callback for a key are the bytes the
\* compiled script holds for it
SignBytesInScript(t) ==
    \A key \in NodeKeys(heap[thr[t].h].node) :
        /\ SignBytes(t, key) = SKC_ToPKBytes(heap[thr[t].h].ctx, key)
        /\ SignBytes(t, key) \in ScriptPushes(thr[t].h)

\* C24: keys keep their identity towards the provider: for any two distinct
\* key strings of one tree the byte strings passed to the sign callback are
\* distinct, and for every key the bytes passed to the sign callback equal
\* the key bytes miniscript_to_script embeds for that key in the script.
C24_KeysKeepIdentity ==
    \A t \in Threads :
        Signed(t) => DistinctKeysDistinctBytes(t) /\ SignBytesInScript(t)

\* the two halves of C24 on their own
C24_Distinct == \A t \in Threads : Signed(t) => DistinctKeysDistinctBytes(t)
C24_AsInScript == \A t \in Threads : Signed(t) => SignBytesInScript(t)


(***************************************************************************)
(* Properties of the result of miniscript_satisfy and of its release       *)
(* (specification ResultSpec).                                             *)
(***************************************************************************)
\* stack and stack_sizes are both null exactly when stack_count is 0
ArraysMatchCount(r) ==
    /\ (r.stack_null /\ r.sizes_null) <=> r.stack_count = 0
    /\ r.stack_null <=> r.sizes_null

\* an element pointer is null exactly when the size of the element is 0
ElementsMatchSizes(r) ==
    \A i \in 1..r.stack_count : r.stack[i].null <=> r.stack_sizes[i] = 0

\* C25: in every SatisfactionResult miniscript_satisfy returns, including
\* when an allocation fails, stack and stack_sizes are both null exactly
\* when stack_count is 0, and for every i < stack_count the pointer stack[i]
\* is null if and only if stack_sizes[i] is 0.
C25_ResultShape ==
    \A t \in Threads :
        thr[t].pc = "done" => ArraysMatchCount(thr[t].got) /\ ElementsMatchSizes(thr[t].got)

\* the parts of C25 that hold: the two arrays, whatever allocation fails,
\* and the elements when no allocation fails
C25_ArraysMatchCount ==
    \A t \in Threads : thr[t].pc = "done" => ArraysMatchCount(thr[t].got)
C25_ElementsMatchSizesInMemory ==
    \A t \in Threads : (thr[t].pc = "done" /\ ~oom) => ElementsMatchSizes(thr[t].got)


\* the buffers a result holds when miniscript_satisfy returns it
Owned(r) ==
    (IF r.stack_null THEN {} ELSE {Buffer("stack", 0)})
        \cup (IF r.sizes_null THEN {} ELSE {Buffer("stack_sizes", 0)})
        \cup (IF r.error_message = NullStr THEN {} ELSE {Buffer("error_message", 0)})
        \cup {Buffer("stack[i]", i) : i \in {j \in 1..Len(r.stack) : ~r.stack[j].null}}

\* the number of times a buffer was passed to free()
TimesFreed(frees, b) == Cardinality({i \in 1..Len(frees) : frees[i] = b})

\* C26: miniscript_satisfaction_result_free is idempotent and complete:
\* after one call on a result of miniscript_satisfy, stack, stack_sizes and
\* error_message are null and stack_count is 0, every buffer of the result
\* has been released exactly once, and further calls on the same result, or
\* calls with a null pointer, release nothing.
C26_FreeIdempotentComplete ==
    \A t \in Threads :
        thr[t].pc = "done" =>
            IF thr[t].nfreed = 0
            THEN thr[t].frees = <<>> /\ thr[t].result = thr[t].got
            ELSE /\ thr[t].result.stack_null
                 /\ thr[t].result.sizes_null
                 /\ thr[t].result.error_message = NullStr
                 /\ thr[t].result.stack_count = 0
                 /\ \A b \in Owned(thr[t].got) : TimesFreed(thr[t].frees, b) = 1
                 /\ \A i \in 1..Len(thr[t].frees) : thr[t].frees[i] \in Owned(thr[t].got)

\* one thread has freed twice a result of three elements, one of them
\* empty; the other has passed a null pointer after a call that returned an
\* error message
C26_Witness ==
    \E t, u \in Threads :
        /\ thr[t].pc = "done" /\ thr[t].nfreed > 1
        /\ thr[t].got.stack_count = 3
        /\ thr[t].got.stack[1].null /\ ~thr[t].got.stack[2].null
        /\ thr[u].pc = "done" /\ thr[u].nfree > 0 /\ thr[u].nfreed = 0
        /\ thr[u].got.error_message # NullStr


(***************************************************************************)
(* Properties of the buffers the provider hands back (specification        *)
(* AdapterSpec).                                                           *)
(***************************************************************************)
\* the number of times the adapter passed the buffer to free()
Frees(ops) == Cardinality({i \in 1..Len(ops) : ops[i] = "free"})

\* the adapter read the buffer after it had freed it
ReadAfterFree(ops) ==
    \E i, j \in 1..Len(ops) : i < j /\ ops[i] = "free" /\ ops[j] = "read"

\* the buffer of the last adapter call was released exactly once, if there
\* was one, and was not touched otherwise
ReleasedOnce(a) ==
    IF a.ans.buf_null THEN a.ops = <<>>
    ELSE Frees(a.ops) = 1 /\ ~ReadAfterFree(a.ops)

\* C27: every buffer a provider callback hands back (the signature from the
\* sign callback, the preimage from each of the four hash callbacks) is
\* released exactly once by the adapter on every path, whatever the
\* availability and the length the callback returned: never leaked when it
\* is not null, never freed twice, never read after it was freed.
C27_BuffersReleasedOnce == adp.called => ReleasedOnce(adp)

\* the part of C27 that holds: on every path on which the adapter returns
C27_ReleasedOnceOnReturn == (adp.called /\ ~adp.thrown) => ReleasedOnce(adp)
====
